---- MODULE Spec2Model ----
(***************************************************************************)
(* Model of the browser action-plan executor (backend/app/browser.py):     *)
(* the plan dispatcher run_action_plan, the selector resolver              *)
(* _find_selector_with_retry and the extraction pipeline                   *)
(* _handle_extract_products.                                               *)
(*                                                                         *)
(* Strings that the code inspects character by character (prices, names)   *)
(* are sequences of one-character strings; message texts are sequences of  *)
(* tokens.                                                                 *)
(***************************************************************************)
EXTENDS Integers, Sequences, FiniteSets, TLC

VARIABLES
    plan,       \* run_action_plan: the plan argument
    pc,         \* run_action_plan: position in the function body
    stepIdx,    \* run_action_plan: step_idx of the for loop (0-based)
    events,     \* the events the sink (send_event) has accepted, in order
    results,    \* run_action_plan: results
    browser,    \* run_action_plan: browser is set (launch succeeded)
    page,       \* run_action_plan: page is set
    sinkUp,     \* FALSE once send_event has raised (consumer disconnected)
    exc,        \* exception in flight in run_action_plan ("none" if none)
    returning,  \* a return statement is pending while finally runs
    ret,        \* the value run_action_plan returned
    driverLog,  \* driver operations issued so far, in order
    handlerEnds,\* history: how the dispatch of each step so far ended
    rCands,     \* _find_selector_with_retry: the candidates, selectors split on ","
    rAppear,    \* the page: the wait call from which each selector is visible
    rPc,        \* _find_selector_with_retry: position in the function body
    rSel,       \* _find_selector_with_retry: index of the candidate being tried
    rAttempt,   \* _find_selector_with_retry: attempt of the inner loop (0-based)
    rCalls,     \* the page.wait_for_selector calls made so far
    rSleeps,    \* the asyncio.sleep delays taken so far, in seconds
    rResult,    \* the value _find_selector_with_retry returned
    xStep,      \* _handle_extract_products: the step argument
    xSnapshot,  \* the page the step runs on: its candidate containers
    xPc,        \* _handle_extract_products: "call" before, "done" after
    xOut,       \* what _handle_extract_products did: events, end, returned list
    sPc,        \* per websocket client: position of its run_action_plan call
    sRun,       \* per client: number of the run_action_plan call it is in
    sBrowser,   \* per client: the local variable browser of its run (0: None)
    sContext,   \* per client: the local variable context of its run (0: None)
    sPage,      \* per client: the local variable page of its run (0: None)
    sObjs,      \* the driver: browsers, contexts and pages created, by id
    sLog        \* per client: the driver calls of its runs, with their targets

dispatcherVars ==
    <<plan, pc, stepIdx, events, results, browser, page, sinkUp, exc,
      returning, ret, driverLog, handlerEnds>>

resolverVars == <<rCands, rAppear, rPc, rSel, rAttempt, rCalls, rSleeps, rResult>>

extractVars == <<xStep, xSnapshot, xPc, xOut>>

sessionVars == <<sPc, sRun, sBrowser, sContext, sPage, sObjs, sLog>>

vars == <<dispatcherVars, resolverVars, extractVars, sessionVars>>

----------------------------------------------------------------------------
(* Bounds *)

MaxPlanLen == 2
MaxCands == 3
MaxContainers == 3
MaxCount == 2
MaxRuns == 3

----------------------------------------------------------------------------
(* Events and steps *)

NoStep == 0
NoCount == -1

\* A RunEvent handed to send_event.  step is the 1-based "step" field of an
\* action_start (NoStep elsewhere), total its "total_steps", status the "status"
\* field ("" when the event has none), count the number the event reports (its
\* "count" key or the number in its message; NoCount when it reports none).
Ev(type, action, msg) ==
    [type |-> type, action |-> action, step |-> NoStep, total |-> 0,
     msg |-> msg, status |-> "", count |-> NoCount, preview |-> <<>>]

EvStart(action, step, total) ==
    [Ev("action_start", action, <<>>) EXCEPT !.step = step, !.total = total]

EvStatus(msg, status) ==
    [Ev("status", "", msg) EXCEPT !.status = status]

EvFatal(msg) ==
    [Ev("error", "", msg) EXCEPT !.status = "failed"]

\* An effect of a handler, in program order: an event handed to the sink, or a
\* driver operation.
Emit(ev) == [op |-> "emit", ev |-> ev]
Op(name) == [op |-> name, ev |-> Ev("", "", <<>>)]

\* A plan step (a dict).  A key a step does not carry holds the value
\* step.get() yields for it: "NONE" for reason, 0 (falsy, like None) for the
\* numeric filters.  ncand is the number of comma-separated candidates of
\* "selector"; min_rating is in hundredths (400 is 4.0).
Step(action) ==
    [action |-> action, reason |-> "NONE", ncand |-> 1, clear_first |-> FALSE,
     wait_after |-> FALSE, count |-> 3, site |-> "flipkart", min_rating |-> 0,
     max_price |-> 0, min_price |-> 0]

\* What a handler did: its effects in program order, how it ended ("ok" or
\* "raise"), the failure text when it raised, and the list it returned.
Outcome(tr, end, fail, items) ==
    [tr |-> tr, end |-> end, fail |-> fail, items |-> items]

RECURSIVE Repeat(_, _)
Repeat(x, n) == IF n = 0 THEN <<>> ELSE <<x>> \o Repeat(x, n - 1)

RECURSIVE EmitsOf(_)
\* The events of a sequence of effects, in order.
EmitsOf(tr) ==
    IF tr = <<>> THEN <<>>
    ELSE IF Head(tr).op = "emit" THEN <<Head(tr).ev>> \o EmitsOf(Tail(tr))
    ELSE EmitsOf(Tail(tr))

RECURSIVE OpsOf(_)
\* The driver operations of a sequence of effects, in order.
OpsOf(tr) ==
    IF tr = <<>> THEN <<>>
    ELSE IF Head(tr).op # "emit" THEN <<Head(tr).op>> \o OpsOf(Tail(tr))
    ELSE OpsOf(Tail(tr))

RECURSIVE UpToEmit(_, _)
\* The effects that run when the sink raises on emit number k + 1: everything
\* before that emit.
UpToEmit(tr, k) ==
    IF tr = <<>> THEN <<>>
    ELSE IF Head(tr).op = "emit"
         THEN IF k = 0 THEN <<>> ELSE <<Head(tr)>> \o UpToEmit(Tail(tr), k - 1)
         ELSE <<Head(tr)>> \o UpToEmit(Tail(tr), k)

----------------------------------------------------------------------------
(* Text helpers: a text is a sequence of one-character strings *)

Digits == {"0", "1", "2", "3", "4", "5", "6", "7", "8", "9"}

DigitVal(c) ==
    CASE c = "0" -> 0 [] c = "1" -> 1 [] c = "2" -> 2 [] c = "3" -> 3
      [] c = "4" -> 4 [] c = "5" -> 5 [] c = "6" -> 6 [] c = "7" -> 7
      [] c = "8" -> 8 [] c = "9" -> 9

DigitChar(d) ==
    CASE d = 0 -> "0" [] d = 1 -> "1" [] d = 2 -> "2" [] d = 3 -> "3"
      [] d = 4 -> "4" [] d = 5 -> "5" [] d = 6 -> "6" [] d = 7 -> "7"
      [] d = 8 -> "8" [] d = 9 -> "9"

IsSpace(c) == c = " "

RECURSIVE Without(_, _)
\* str.replace(c, "") / String.replace(/c/g, ''): every character in cs removed.
Without(s, cs) ==
    IF s = <<>> THEN <<>>
    ELSE IF Head(s) \in cs THEN Without(Tail(s), cs)
    ELSE <<Head(s)>> \o Without(Tail(s), cs)

RECURSIVE Only(_, _)
\* String.replace(/[^cs]/g, ''): only the characters in cs kept.
Only(s, cs) ==
    IF s = <<>> THEN <<>>
    ELSE IF Head(s) \in cs THEN <<Head(s)>> \o Only(Tail(s), cs)
    ELSE Only(Tail(s), cs)

RECURSIVE LStrip(_)
LStrip(s) == IF s # <<>> /\ IsSpace(Head(s)) THEN LStrip(Tail(s)) ELSE s

RECURSIVE RStrip(_)
RStrip(s) ==
    IF s # <<>> /\ IsSpace(s[Len(s)]) THEN RStrip(SubSeq(s, 1, Len(s) - 1)) ELSE s

\* str.strip() / String.trim()
Strip(s) == RStrip(LStrip(s))

RECURSIVE CollapseSpaces(_)
\* String.replace(/\s+/g, ' '): every run of whitespace becomes one space.
CollapseSpaces(s) ==
    IF s = <<>> THEN <<>>
    ELSE IF IsSpace(Head(s))
         THEN <<" ">> \o CollapseSpaces(LStrip(s))
         ELSE <<Head(s)>> \o CollapseSpaces(Tail(s))

\* String.substring(0, n) / s[:n]
Prefix(s, n) == SubSeq(s, 1, IF Len(s) < n THEN Len(s) ELSE n)

RECURSIVE RunOf(_, _)
\* The longest prefix of s made of characters in cs.
RunOf(s, cs) ==
    IF s # <<>> /\ Head(s) \in cs THEN <<Head(s)>> \o RunOf(Tail(s), cs) ELSE <<>>

RECURSIVE FirstRun(_, _)
\* String.match(/([cs]+)/)[1]: the first maximal run of characters in cs;
\* <<>> when there is no match.
FirstRun(s, cs) ==
    IF s = <<>> THEN <<>>
    ELSE IF Head(s) \in cs THEN RunOf(s, cs)
    ELSE FirstRun(Tail(s), cs)

AllDigits(s) == \A i \in 1..Len(s) : s[i] \in Digits

RECURSIVE DigitsValue(_)
DigitsValue(s) ==
    IF s = <<>> THEN 0 ELSE 10 * DigitsValue(SubSeq(s, 1, Len(s) - 1)) + DigitVal(s[Len(s)])

\* int(s) of Python for the texts of this model: defined on non-empty digit
\* texts, a ValueError otherwise.
IntRaises(s) == s = <<>> \/ ~AllDigits(s)
PyInt(s) == DigitsValue(s)

RECURSIVE PyStr(_)
\* str(n) for n >= 0
PyStr(n) == IF n < 10 THEN <<DigitChar(n)>> ELSE PyStr(n \div 10) \o <<DigitChar(n % 10)>>

\* A decimal text read as a number of hundredths; ratings of this model carry at
\* most two decimals.
FracPart(s) ==
    LET rest == SubSeq(s, Len(RunOf(s, Digits)) + 1, Len(s))
    IN  IF rest # <<>> /\ Head(rest) = "." THEN RunOf(Tail(rest), Digits) ELSE <<>>

Hundredths(s) ==
    LET f == Prefix(FracPart(s) \o <<"0", "0">>, 2)
    IN  100 * DigitsValue(RunOf(s, Digits)) + DigitsValue(f)

NaN == -1

\* parseFloat(s) of JavaScript: the longest decimal prefix, NaN when there is none.
JsParseFloat(s) ==
    IF RunOf(s, Digits) = <<>> /\ FracPart(s) = <<>> THEN NaN ELSE Hundredths(s)

\* float(s) of Python raises unless the whole text is a decimal.
FloatRaises(s) ==
    \/ Only(s, Digits) = <<>>
    \/ Only(s, Digits \cup {"."}) # s
    \/ Len(Only(s, {"."})) > 1

PyFloat(s) == Hundredths(s)

----------------------------------------------------------------------------
(* The page scripts of _handle_extract_products *)

\* A candidate container of the page, as the page script reads it: the texts of
\* the elements its name selectors find, in selector order; the text of its
\* price (cost) element; the number matched after a currency marker in its whole
\* text; the text of its rating element; the href of its item link ("" if none).
Container(names, priceEl, textPrice, rating, href) ==
    [names |-> names, priceEl |-> priceEl, textPrice |-> textPrice,
     rating |-> rating, href |-> href]

Product(name, price, rating, url) ==
    [name |-> name, price |-> price, rating |-> rating, url |-> url]

NA == <<"N", "/", "A">>

CONTAINER_CAP == 20

IsHttp(u) == u \in {"http://site/p/1", "http://site/r/1"}

\* item.url = window.location.origin + item.url
AbsUrl(u) == IF u = "" \/ IsHttp(u) THEN u ELSE "http://site" \o u

RECURSIVE PickName(_, _)
\* The name loops: each candidate overwrites item.name, and the loop stops at
\* the first one of length >= 3.
PickName(cands, sofar) ==
    IF cands = <<>> THEN sofar
    ELSE IF Len(Head(cands)) >= 3 THEN Head(cands)
    ELSE PickName(Tail(cands), Head(cands))

RECURSIVE MapStrip(_)
MapStrip(ts) == IF ts = <<>> THEN <<>> ELSE <<Strip(Head(ts))>> \o MapStrip(Tail(ts))

\* Zomato script, one container: the pushed item, or <<>> when it is skipped.
ZomatoItem(c) ==
    LET name == PickName(MapStrip(c.names), <<>>)
        m == FirstRun(c.rating, Digits \cup {"."})
        rating == IF m # <<>> /\ JsParseFloat(m) >= 100 /\ JsParseFloat(m) <= 500
                  THEN m ELSE <<>>
        price == Without(FirstRun(c.priceEl, Digits \cup {","}), {","})
    IN  IF Len(name) >= 3
        THEN <<Product(name, price, rating, AbsUrl(c.href))>>
        ELSE <<>>

\* Flipkart/product script, one container.
FlipkartItem(c) ==
    LET name0 == PickName(c.names, <<>>)
        name == Prefix(CollapseSpaces(Strip(name0)), 150)
        p1 == Only(c.priceEl, Digits)
        p2 == IF Len(p1) >= 4 THEN p1 ELSE Without(c.textPrice, {","})
        p3 == Without(p2, {","})
        price == IF p3 = <<>> \/ p3 = <<"0">> \/ Len(p3) < 3 THEN <<>> ELSE p3
        m == FirstRun(c.rating, Digits \cup {"."})
    IN  IF Len(name) >= 3 /\ Len(price) >= 3
        THEN <<Product(name, price, IF m = <<>> THEN NA ELSE m,
                       IF c.href = "" THEN "N/A" ELSE AbsUrl(c.href))>>
        ELSE <<>>

RECURSIVE ScriptItems(_, _)
ScriptItems(site, cs) ==
    IF cs = <<>> THEN <<>>
    ELSE (IF site = "zomato" THEN ZomatoItem(Head(cs)) ELSE FlipkartItem(Head(cs)))
         \o ScriptItems(site, Tail(cs))

\* page.evaluate(extraction_script) on a page snapshot (its candidate
\* containers in document order): at most 20 containers are read.
ExtractionScript(site, snapshot) ==
    ScriptItems(site, Prefix(snapshot, CONTAINER_CAP))

----------------------------------------------------------------------------
(* _handle_extract_products: validation, filtering, truncation *)

ValidateOneNoFloor(site, product) ==
    IF Len(Strip(product.name)) < 3 THEN <<>> ELSE <<product>>

\* One pass of the validation loop: <<product>> as appended to valid_products,
\* or <<>> when the product is skipped.
ValidateOne(site, product) ==
    LET name == Strip(product.name)
        price_str == Without(product.price, {",", "₹"})
    IN  IF name = <<>> \/ Len(name) < 3 THEN <<>>
        ELSE IF price_str # <<>> /\ IntRaises(price_str)
        THEN IF site = "zomato" THEN <<[product EXCEPT !.price = <<>>]>> ELSE <<>>
        ELSE LET price_val == IF price_str # <<>> THEN PyInt(price_str) ELSE 0
             IN  IF site = "zomato"
                 THEN <<[product EXCEPT
                            !.price = IF price_val > 0 THEN PyStr(price_val) ELSE <<>>]>>
                 ELSE IF price_val >= 100
                      THEN <<[product EXCEPT !.price = PyStr(price_val)]>>
                      ELSE <<>>

RECURSIVE Validate(_, _)
Validate(site, products) ==
    IF products = <<>> THEN <<>>
    ELSE ValidateOne(site, Head(products)) \o Validate(site, Tail(products))

RatingFilterOn(step) == step.min_rating # 0 /\ step.site = "zomato"

\* float(p.get("rating", "0")) is evaluated for every product with a rating.
RatingFilterRaises(products) ==
    \E i \in 1..Len(products) :
        products[i].rating # <<>> /\ FloatRaises(products[i].rating)

KeepRating(step, p) == p.rating # <<>> /\ PyFloat(p.rating) >= step.min_rating

RECURSIVE FilterRating(_, _)
\* [p for p in products if p.get("rating") and float(...) >= min_rating]
FilterRating(ps, step) ==
    IF ps = <<>> THEN <<>>
    ELSE (IF KeepRating(step, Head(ps)) THEN <<Head(ps)>> ELSE <<>>)
         \o FilterRating(Tail(ps), step)

PriceFilterOnAnySite(step) == step.max_price # 0 \/ step.min_price # 0

\* if (step.get("max_price") or step.get("min_price")) and site != "zomato"
PriceFilterOn(step) ==
    (step.max_price # 0 \/ step.min_price # 0) /\ step.site # "zomato"

NO_MAX_PRICE == 999999999

KeepPrice(step, p) ==
    \/ p.price = <<>>
    \/ /\ PyInt(p.price) <= (IF step.max_price # 0 THEN step.max_price ELSE NO_MAX_PRICE)
       /\ PyInt(p.price) >= (IF step.min_price # 0 THEN step.min_price ELSE 0)

RECURSIVE FilterPrice(_, _)
\* [p for p in filtered if not p["price"] or min <= int(p["price"]) <= max]
FilterPrice(ps, step) ==
    IF ps = <<>> THEN <<>>
    ELSE (IF KeepPrice(step, Head(ps)) THEN <<Head(ps)>> ELSE <<>>)
         \o FilterPrice(Tail(ps), step)

TruncateNothing(filtered, count) == filtered

TruncateTail(filtered, count) ==
    SubSeq(filtered, Len(filtered) - Len(Prefix(filtered, count)) + 1, Len(filtered))

\* filtered[:count] if filtered else []
Truncate(filtered, count) == Prefix(filtered, count)

EvCount(type, action, msg, n) == [Ev(type, action, msg) EXCEPT !.count = n]

FinalEventAlwaysAction(final_products) ==
    Emit([EvCount("action", "extract_products", <<"Extracted">>, Len(final_products))
          EXCEPT !.preview = Prefix(final_products, 2)])

\* The last event of a step that did not fail: the warning when nothing is
\* left, else the action event with "count" and "preview": final_products[:2].
FinalEvent(final_products) ==
    IF Len(final_products) = 0
    THEN Emit(Ev("warning", "", <<"No valid products found">>))
    ELSE Emit([EvCount("action", "extract_products", <<"Extracted">>,
                       Len(final_products))
               EXCEPT !.preview = Prefix(final_products, 2)])

\* Lines 496-567 when nothing raises: the events sent and the list returned.
Pipeline(step, products) ==
    LET valid == Validate(step.site, products)
        byRating == IF RatingFilterOn(step)
                    THEN FilterRating(valid, step) ELSE valid
        ratingEv == IF RatingFilterOn(step)
                    THEN <<Emit(EvCount("action", "filter_rating", <<"Filtered">>,
                                        Len(byRating)))>>
                    ELSE <<>>
        filtered == IF PriceFilterOn(step)
                    THEN FilterPrice(byRating, step) ELSE byRating
        priceEv == IF PriceFilterOn(step)
                   THEN <<Emit(EvCount("action", "filter_price", <<"Filtered">>,
                                       Len(filtered)))>>
                   ELSE <<>>
        final_products == Truncate(filtered, step.count)
        lastEv == FinalEvent(final_products)
    IN  [tr |-> ratingEv \o priceEv \o <<lastEv>>, items |-> final_products]

\* Lines 496-574 raise into the except clause when the script evaluation fails
\* or float() rejects a rating.
PipelineRaises(step, products) ==
    RatingFilterOn(step) /\ RatingFilterRaises(Validate(step.site, products))

\* _handle_extract_products on a page snapshot.  evalOk: page.evaluate returned;
\* titleOk: page.title() in the except clause returned.
ExtractProducts(step, snapshot, evalOk, titleOk) ==
    LET head == <<Emit(Ev("action", "extract_products", <<"Extracting">>)),
                  Op("wait_for_selector"),
                  Op(IF evalOk THEN "evaluate" ELSE "evaluate!")>>
        products == ExtractionScript(step.site, snapshot)
    IN  IF evalOk /\ ~PipelineRaises(step, products)
        THEN LET r == Pipeline(step, products)
             IN  Outcome(head \o r.tr, "ok", "", r.items)
        ELSE IF titleOk
             THEN Outcome(head \o <<Op("title"),
                              Emit(Ev("error", "", <<"Extraction error">>))>>,
                          "ok", "", <<>>)
             ELSE Outcome(head \o <<Op("title!")>>, "raise", "title failed", <<>>)

----------------------------------------------------------------------------
(* The step handlers, as the set of ways each can run.  The driver decides   *)
(* which: every driver call either returns or raises.  A driver call that   *)
(* raised is logged with a trailing "!".                                     *)

MAX_RETRIES == 3

\* _find_selector_with_retry as a handler sees it: found on the first wait, or
\* none after MAX_RETRIES waits on each of the n candidates.
FindSelectorOps(n, found) ==
    IF found THEN <<Op("wait_for_selector")>>
    ELSE Repeat(Op("wait_for_selector!"), MAX_RETRIES * n)

NavigateOutcomesTimeoutRaises(step) ==
    LET start == <<Emit(Ev("action", "navigate", <<"Navigating">>))>>
    IN  { Outcome(start \o <<Op("goto"), Op("title"),
                            Emit(Ev("action", "navigate", <<"Loaded">>))>>,
                  "ok", "", <<>>),
          Outcome(start \o <<Op("goto_timeout!")>>, "raise", "goto timeout", <<>>),
          Outcome(start \o <<Op("goto"), Op("title_timeout!")>>,
                  "raise", "title timeout", <<>>),
          Outcome(start \o <<Op("goto!")>>, "raise", "goto failed", <<>>),
          Outcome(start \o <<Op("goto"), Op("title!")>>, "raise", "title failed", <<>>) }

\* page.goto or page.title raising PlaywrightTimeoutError ("..._timeout!") is
\* caught and reported as a warning; any other failure of theirs ("goto!",
\* "title!") leaves the handler.
NavigateOutcomes(step) ==
    LET start == <<Emit(Ev("action", "navigate", <<"Navigating">>))>>
    IN  { Outcome(start \o <<Op("goto"), Op("title"),
                            Emit(Ev("action", "navigate", <<"Loaded">>))>>,
                  "ok", "", <<>>),
          Outcome(start \o <<Op("goto_timeout!"),
                            Emit(Ev("warning", "", <<"Navigation timeout">>))>>,
                  "ok", "", <<>>),
          Outcome(start \o <<Op("goto"), Op("title_timeout!"),
                            Emit(Ev("warning", "", <<"Navigation timeout">>))>>,
                  "ok", "", <<>>),
          Outcome(start \o <<Op("goto!")>>, "raise", "goto failed", <<>>),
          Outcome(start \o <<Op("goto"), Op("title!")>>, "raise", "title failed", <<>>) }

WaitForOutcomes(step) ==
    { Outcome(FindSelectorOps(step.ncand, TRUE), "ok", "", <<>>),
      Outcome(FindSelectorOps(step.ncand, FALSE)
                \o <<Emit(Ev("warning", "", <<"Element not found">>))>>,
              "ok", "", <<>>) }

TypeOutcomesClickFatal(step) ==
    LET found == FindSelectorOps(1, TRUE)
        clear == IF step.clear_first THEN <<Op("fill")>> ELSE <<>>
        sent == <<Emit(Ev("action", "type", <<"Typed">>))>>
    IN  { Outcome(FindSelectorOps(1, FALSE), "raise", "Input not found", <<>>),
          Outcome(found \o clear \o <<Op("click"), Op("type")>> \o sent, "ok", "", <<>>),
          Outcome(found \o clear \o <<Op("click!")>>, "raise", "click failed", <<>>),
          Outcome(found \o clear \o <<Op("click"), Op("type!")>>, "raise", "type failed", <<>>) }
        \cup (IF step.clear_first
              THEN { Outcome(found \o <<Op("fill!")>>, "raise", "fill failed", <<>>) }
              ELSE {})

\* The resolver is given the first candidate only; the focusing click may fail
\* without consequence; page.fill and page.type may raise.
TypeOutcomes(step) ==
    LET found == FindSelectorOps(1, TRUE)
        clear == IF step.clear_first THEN <<Op("fill")>> ELSE <<>>
        sent == <<Emit(Ev("action", "type", <<"Typed">>))>>
    IN  { Outcome(FindSelectorOps(1, FALSE), "raise", "Input not found", <<>>),
          Outcome(found \o clear \o <<Op("click"), Op("type")>> \o sent, "ok", "", <<>>),
          Outcome(found \o clear \o <<Op("click!"), Op("type")>> \o sent, "ok", "", <<>>),
          Outcome(found \o clear \o <<Op("click"), Op("type!")>>, "raise", "type failed", <<>>),
          Outcome(found \o clear \o <<Op("click!"), Op("type!")>>, "raise", "type failed", <<>>) }
        \cup (IF step.clear_first
              THEN { Outcome(found \o <<Op("fill!")>>, "raise", "fill failed", <<>>) }
              ELSE {})

ClickOutcomesNoFallback(step) ==
    LET clicks(j) == IF j = 0 THEN Repeat(Op("click!"), step.ncand)
                     ELSE Repeat(Op("click!"), j - 1) \o <<Op("click")>>
        done == <<Emit(Ev("action", "click", <<"Clicked">>))>>
    IN  { Outcome(clicks(j) \o done
                    \o (IF step.wait_after THEN <<Op("wait_for_load_state")>> ELSE <<>>),
                  "ok", "", <<>>) : j \in 1..step.ncand }
        \cup { Outcome(clicks(0), "raise", "click failed", <<>>) }
        \cup (IF step.wait_after
              THEN { Outcome(clicks(j) \o done \o <<Op("wait_for_load_state!")>>,
                             "raise", "load state timeout", <<>>) : j \in 1..step.ncand }
              ELSE {})

\* j: the candidate whose click succeeds, 0 when every click fails.
ClickOutcomes(step) ==
    LET clicks(j) == IF j = 0 THEN Repeat(Op("click!"), step.ncand)
                     ELSE Repeat(Op("click!"), j - 1) \o <<Op("click")>>
        done(j) == IF j = 0
                   THEN <<Op("press_enter"),
                          Emit(Ev("action", "click", <<"Pressed Enter">>))>>
                   ELSE <<Emit(Ev("action", "click", <<"Clicked">>))>>
    IN  { Outcome(clicks(j) \o done(j)
                    \o (IF step.wait_after THEN <<Op("wait_for_load_state")>> ELSE <<>>),
                  "ok", "", <<>>) : j \in 0..step.ncand }
        \cup { Outcome(clicks(0) \o <<Op("press_enter!")>>, "raise", "press failed", <<>>) }
        \cup (IF step.wait_after
              THEN { Outcome(clicks(j) \o done(j) \o <<Op("wait_for_load_state!")>>,
                             "raise", "load state timeout", <<>>) : j \in 0..step.ncand }
              ELSE {})

\* The try block swallows every failure of the UI filter.
FilterPriceOutcomes(step) ==
    LET start == <<Emit(Ev("action", "filter_price", <<"Filtering">>))>>
    IN  IF step.max_price # 0
        THEN { Outcome(start \o <<Op("fill"), Op("press_enter"),
                                  Op("wait_for_load_state")>>, "ok", "", <<>>),
               Outcome(start \o <<Op("fill!"), Op("fill!"),
                                  Op("wait_for_load_state!")>>, "ok", "", <<>>) }
        ELSE { Outcome(start \o <<Op("wait_for_load_state")>>, "ok", "", <<>>) }

FilterRatingOutcomes(step) ==
    LET start == <<Emit(Ev("action", "filter_rating", <<"Rating">>))>>
    IN  { Outcome(start \o <<Op("click"), Op("wait_for_load_state")>>, "ok", "", <<>>),
          Outcome(start \o <<Op("click!"), Op("click!")>>, "ok", "", <<>>) }

FORM_SELECTORS == 4
SUBMIT_SELECTORS == 3

FillFormFieldOutcomesRaising(step) ==
    { Outcome(FindSelectorOps(FORM_SELECTORS, TRUE)
                \o <<Op("fill"), Emit(Ev("action", "fill_form_field", <<"Filled">>))>>,
              "ok", "", <<>>),
      Outcome(FindSelectorOps(FORM_SELECTORS, TRUE) \o <<Op("fill!")>>,
              "raise", "fill failed", <<>>),
      Outcome(FindSelectorOps(FORM_SELECTORS, FALSE), "raise", "Field not found", <<>>) }

\* The field's input resolved and was filled (or the fill raised), or none of
\* the four candidates resolved and a warning is sent.
FillFormFieldOutcomes(step) ==
    { Outcome(FindSelectorOps(FORM_SELECTORS, TRUE)
                \o <<Op("fill"), Emit(Ev("action", "fill_form_field", <<"Filled">>))>>,
              "ok", "", <<>>),
      Outcome(FindSelectorOps(FORM_SELECTORS, TRUE) \o <<Op("fill!")>>,
              "raise", "fill failed", <<>>),
      Outcome(FindSelectorOps(FORM_SELECTORS, FALSE)
                \o <<Emit(Ev("warning", "", <<"Field not found">>))>>,
              "ok", "", <<>>) }

\* _find_selector_with_retry returning on the first wait for candidate k, the
\* candidates before it having failed MAX_RETRIES waits each.
FindSelectorOpsAt(k) ==
    Repeat(Op("wait_for_selector!"), MAX_RETRIES * (k - 1)) \o <<Op("wait_for_selector")>>

\* page.click(selectors.split(",")[0]) clicks the first candidate, whichever
\* candidate resolved.  When the second resolved, the first is not on the page:
\* the click waits for it and succeeds if it appears, and times out
\* ("click_timeout!") if it never does.
SubmitFormOutcomes(step) ==
    LET sent == <<Emit(Ev("action", "submit_form", <<"Form submitted">>))>>
    IN  { Outcome(FindSelectorOps(SUBMIT_SELECTORS, TRUE) \o <<Op("click")>> \o sent
                    \o <<Op(w)>>, "ok", "", <<>>)
            : w \in {"wait_for_load_state", "wait_for_load_state!"} }
        \cup
        { Outcome(FindSelectorOpsAt(2) \o <<Op("click")>> \o sent
                    \o <<Op(w)>>, "ok", "", <<>>)
            : w \in {"wait_for_load_state", "wait_for_load_state!"} }
        \cup
        { Outcome(FindSelectorOpsAt(2) \o <<Op("click_timeout!")>>,
                  "raise", "Timeout", <<>>) }
        \cup
        { Outcome(FindSelectorOps(SUBMIT_SELECTORS, FALSE) \o <<Op("press_enter")>> \o sent
                    \o <<Op(w)>>, "ok", "", <<>>)
            : w \in {"wait_for_load_state", "wait_for_load_state!"} }
        \cup
        { Outcome(FindSelectorOps(SUBMIT_SELECTORS, TRUE) \o <<Op("click!")>>,
                  "raise", "click failed", <<>>),
          Outcome(FindSelectorOps(SUBMIT_SELECTORS, FALSE) \o <<Op("press_enter!")>>,
                  "raise", "press failed", <<>>) }

----------------------------------------------------------------------------
(* Page snapshots and plans *)

Mac == <<"M", "a", "c">>
Tv == <<"T", "V">>
Rupee(ds) == <<"₹">> \o ds

\* Two product cards and a venue card.
CardCheap == Container(<<Mac>>, Rupee(<<"9", "9">>), <<>>, <<"4", ".", "5">>, "/p/1")
CardMid == Container(<<Mac>>, Rupee(<<"1", ",", "2", "9", "9">>), <<>>, <<"4", ".", "5">>, "/p/1")
CardVenue == Container(<<Mac>>, Rupee(<<"5", "0", "0">>), <<>>, <<"4", ".", "5">>, "/r/1")
\* A venue card whose rating element reads "4.2.1".
CardText == Container(<<Mac>>, Rupee(<<"5", "0", "0">>), <<"5", "0", "0">>,
                      <<"4", ".", "2", ".", "1">>, "/r/1")

\* The snapshots the dispatcher's extract steps run on.
DispatchSnapshots ==
    { <<>>, <<CardMid, CardCheap, CardMid>>, <<CardVenue, CardVenue>>, <<CardText>> }

StepPool ==
    { Step("navigate"),
      [Step("wait_for") EXCEPT !.ncand = 2],
      [Step("type") EXCEPT !.clear_first = TRUE],
      [Step("click") EXCEPT !.ncand = 2, !.wait_after = TRUE],
      [Step("filter_price") EXCEPT !.max_price = 500],
      [Step("filter_rating") EXCEPT !.min_rating = 400],
      [Step("extract_products") EXCEPT !.count = 1],
      [Step("extract_products") EXCEPT !.count = 2, !.site = "zomato", !.min_rating = 400],
      Step("fill_form_field"),
      Step("submit_form"),
      Step("unsupported"),
      [Step("unsupported") EXCEPT !.reason = "Intent not handled yet"],
      Step("scroll") }

Handled ==
    {"navigate", "wait_for", "type", "click", "filter_price", "filter_rating",
     "extract_products", "fill_form_field", "submit_form"}

RECURSIVE SeqsOf(_, _)
\* The sequences over S of length exactly n.
SeqsOf(S, n) ==
    IF n = 0 THEN {<<>>}
    ELSE {Append(q, x) : q \in SeqsOf(S, n - 1), x \in S}

\* Five-step plans whose second step is unsupported (Scenario D).
ScenarioDPlans ==
    { <<a, u>> \o rest :
        a \in StepPool,
        u \in {t \in StepPool : t.action = "unsupported"},
        rest \in SeqsOf({Step("navigate"), [Step("extract_products") EXCEPT !.count = 1]}, 3) }

Plans == UNION {SeqsOf(StepPool, n) : n \in 0..MaxPlanLen} \cup ScenarioDPlans

----------------------------------------------------------------------------
(* run_action_plan *)

CurStep == plan[stepIdx + 1]

\* send_event either delivers, or raises from now on (the consumer is gone).
SinkChoices == IF sinkUp THEN {TRUE, FALSE} ELSE {FALSE}

Raise(e) ==
    /\ exc' = e
    /\ pc' = "except"

SinkRaises ==
    /\ sinkUp' = FALSE
    /\ Raise("Exception")

\* async with async_playwright() as p
StartPlaywright ==
    /\ UNCHANGED <<resolverVars, extractVars, sessionVars>>
    /\ pc = "start"
    /\ \E r \in {"ok", "NotImplementedError", "Exception"} :
          IF r = "ok" THEN pc' = "launch" /\ exc' = exc ELSE Raise(r)
    /\ UNCHANGED <<plan, stepIdx, events, results, browser, page, sinkUp,
                   returning, ret, driverLog, handlerEnds>>

AfterLaunchFailureFallsThrough == "context"

\* Where the except clause of the launch goes after its error event:
\* return [], through the finally clause.
AfterLaunchFailure == "finally"

\* p.chromium.launch(...) and its except clause
LaunchBrowser ==
    /\ UNCHANGED <<resolverVars, extractVars, sessionVars>>
    /\ pc = "launch"
    /\ \/ /\ browser' = TRUE
          /\ driverLog' = Append(driverLog, "launch")
          /\ pc' = "context"
          /\ UNCHANGED <<events, sinkUp, exc, returning>>
       \/ /\ driverLog' = Append(driverLog, "launch!")
          /\ browser' = browser
          /\ \E sent \in SinkChoices :
                IF sent
                THEN /\ events' = Append(events, Ev("error", "", <<"Failed to launch browser">>))
                     /\ returning' = "empty"
                     /\ pc' = AfterLaunchFailure
                     /\ UNCHANGED <<sinkUp, exc>>
                ELSE SinkRaises /\ UNCHANGED <<events, returning>>
    /\ UNCHANGED <<plan, stepIdx, results, page, ret, handlerEnds>>

\* browser.new_context(...), context.new_page(), the "ready" status
NewContext ==
    /\ UNCHANGED <<resolverVars, extractVars, sessionVars>>
    /\ pc = "context"
    /\ \/ /\ driverLog' = Append(driverLog, "new_context!")
          /\ Raise("Exception")
          /\ UNCHANGED <<events, page, sinkUp>>
       \/ /\ driverLog' = driverLog \o <<"new_context", "new_page!">>
          /\ Raise("Exception")
          /\ UNCHANGED <<events, page, sinkUp>>
       \/ /\ driverLog' = driverLog \o <<"new_context", "new_page">>
          /\ page' = TRUE
          /\ \E sent \in SinkChoices :
                IF sent
                THEN /\ events' = Append(events, EvStatus(<<"Browser initialized">>, "ready"))
                     /\ pc' = "loop"
                     /\ UNCHANGED <<sinkUp, exc>>
                ELSE SinkRaises /\ UNCHANGED events
    /\ UNCHANGED <<plan, stepIdx, results, browser, returning, ret, handlerEnds>>

StartEventOffByOne == EvStart(CurStep.action, stepIdx, Len(plan))

\* The action_start event of the current step: "step" is step_idx + 1.
StartEvent == EvStart(CurStep.action, stepIdx + 1, Len(plan))

\* for step_idx, step in enumerate(plan): the action_start event
StartStep ==
    /\ UNCHANGED <<resolverVars, extractVars, sessionVars>>
    /\ pc = "loop"
    /\ stepIdx < Len(plan)
    /\ \E sent \in SinkChoices :
          IF sent
          THEN /\ events' = Append(events, StartEvent)
               /\ pc' = "dispatch"
               /\ UNCHANGED <<sinkUp, exc>>
          ELSE SinkRaises /\ UNCHANGED events
    /\ UNCHANGED <<plan, stepIdx, results, browser, page, returning, ret, driverLog,
                   handlerEnds>>

\* What the dispatcher sends after the handler: action_complete when it
\* returned (line 101), the step's error when it raised (line 98).
AfterHandler(step, o) ==
    IF o.end = "ok"
    THEN Emit(Ev("action_complete", step.action, <<>>))
    ELSE Emit(Ev("error", "", <<"Error in", step.action, o.fail>>))

\* History of a dispatched step: its handler returned ("ok"), raised ("raise",
\* with the failure text), was left by an exception of send_event ("sink"), or
\* the step stopped the run ("break"); ops are the driver calls it made, items
\* the list it returned, and late the driver calls it entered after send_event
\* had raised.
HandlerEnd(end, fail, ops, items, late) ==
    [end |-> end, fail |-> fail, ops |-> ops, items |-> items, late |-> late]

AfterHandlerFailureStops == "broke"

\* Where the except clause of line 97 goes after its error event: continue.
AfterHandlerFailure == "loop"

ExtendedReplacing(o, handlerReturned) ==
    IF o.end = "ok" /\ handlerReturned THEN o.items ELSE results

\* results.extend(extracted) has run once the handler has returned.
Extended(o, handlerReturned) ==
    IF o.end = "ok" /\ handlerReturned THEN results \o o.items ELSE results

SinkRescueOpsNone(step, o, k) == {<<>>}

\* What the handler itself does when send_event raises on its emit number
\* k + 1.  Only _handle_extract_products catches that exception: the emits of
\* its try block (every emit after the first, lines 538-565) are followed by
\* the except clause of line 569, which calls page.title() to build its error
\* message before it calls send_event again.
SinkRescueOps(step, o, k) ==
    IF /\ step.action = "extract_products"
       /\ k >= 1
       /\ k < Len(EmitsOf(o.tr))
       /\ EmitsOf(o.tr)[k + 1].type # "error"
    THEN {<<"title">>, <<"title!">>}
    ELSE {<<>>}

\* Lines 71-101 for one step whose handler runs as o.  The sink delivers the
\* first k events and raises on the next: that exception is caught at line 97,
\* whose own send_event raises again, out of the loop.
Dispatched(o) ==
    LET full == o.tr \o <<AfterHandler(CurStep, o)>>
        n == Len(EmitsOf(full))
    IN  \E k \in 0..n :
          LET ran == IF k = n THEN full ELSE UpToEmit(full, k)
          IN  \E late \in SinkRescueOps(CurStep, o, k) :
              /\ events' = events \o EmitsOf(ran)
              /\ driverLog' = driverLog \o OpsOf(ran) \o late
              /\ results' = Extended(o, k >= n - 1)
              /\ handlerEnds' = Append(handlerEnds,
                                       IF k >= n - 1
                                       THEN HandlerEnd(o.end, o.fail, OpsOf(ran), o.items,
                                                       <<>>)
                                       ELSE HandlerEnd("sink", "", OpsOf(ran), <<>>, late))
              /\ IF k = n
                 THEN /\ stepIdx' = stepIdx + 1
                      /\ pc' = IF o.end = "raise" THEN AfterHandlerFailure ELSE "loop"
                      /\ UNCHANGED <<sinkUp, exc>>
                 ELSE /\ stepIdx' = stepIdx
                      /\ SinkRaises

Dispatching(action) ==
    /\ pc = "dispatch"
    /\ CurStep.action = action
    /\ UNCHANGED <<plan, browser, page, returning, ret>>
    /\ UNCHANGED <<resolverVars, extractVars, sessionVars>>

DoNavigate ==
    /\ Dispatching("navigate")
    /\ \E o \in NavigateOutcomes(CurStep) : Dispatched(o)

DoWaitFor ==
    /\ Dispatching("wait_for")
    /\ \E o \in WaitForOutcomes(CurStep) : Dispatched(o)

DoType ==
    /\ Dispatching("type")
    /\ \E o \in TypeOutcomes(CurStep) : Dispatched(o)

DoClick ==
    /\ Dispatching("click")
    /\ \E o \in ClickOutcomes(CurStep) : Dispatched(o)

DoFilterPrice ==
    /\ Dispatching("filter_price")
    /\ \E o \in FilterPriceOutcomes(CurStep) : Dispatched(o)

DoFilterRating ==
    /\ Dispatching("filter_rating")
    /\ \E o \in FilterRatingOutcomes(CurStep) : Dispatched(o)

DoExtractProducts ==
    /\ Dispatching("extract_products")
    /\ \E snapshot \in DispatchSnapshots, evalOk \in BOOLEAN, titleOk \in BOOLEAN :
          Dispatched(ExtractProducts(CurStep, snapshot, evalOk, titleOk))

DoFillFormField ==
    /\ Dispatching("fill_form_field")
    /\ \E o \in FillFormFieldOutcomes(CurStep) : Dispatched(o)

DoSubmitForm ==
    /\ Dispatching("submit_form")
    /\ \E o \in SubmitFormOutcomes(CurStep) : Dispatched(o)

AfterUnsupportedNoBreak == "loop"

\* Where the unsupported branch goes after its error event: break.
AfterUnsupported == "broke"

\* elif action == "unsupported": the error event, then break
DoUnsupported ==
    /\ Dispatching("unsupported")
    /\ \E sent \in SinkChoices :
          IF sent
          THEN /\ events' = Append(events,
                       Ev("error", "",
                          <<IF CurStep.reason = "NONE" THEN "Unsupported action"
                            ELSE CurStep.reason>>))
               /\ pc' = AfterUnsupported
               /\ handlerEnds' = Append(handlerEnds, HandlerEnd("break", "", <<>>, <<>>, <<>>))
               /\ UNCHANGED <<sinkUp, exc>>
          ELSE /\ SinkRaises
               /\ handlerEnds' = Append(handlerEnds, HandlerEnd("sink", "", <<>>, <<>>, <<>>))
               /\ UNCHANGED events
    /\ UNCHANGED <<stepIdx, results, driverLog>>

UnknownOutcomeRaising(step) == Outcome(<<>>, "raise", "Unknown action", <<>>)

\* The else branch of the dispatch: one error event, nothing raised.
UnknownOutcome(step) ==
    Outcome(<<Emit(Ev("error", "", <<"Unknown action", step.action>>))>>, "ok", "", <<>>)

\* else: the "Unknown action" error event; the step then completes
DoUnknown ==
    /\ pc = "dispatch"
    /\ CurStep.action \notin Handled \cup {"unsupported"}
    /\ UNCHANGED <<plan, browser, page, returning, ret>>
    /\ UNCHANGED <<resolverVars, extractVars, sessionVars>>
    /\ Dispatched(UnknownOutcome(CurStep))

CompletedSilent ==
    /\ UNCHANGED <<resolverVars, extractVars, sessionVars>>
    /\ \/ pc = "loop" /\ stepIdx = Len(plan)
       \/ pc = "broke"
    /\ returning' = "results"
    /\ pc' = "finally"
    /\ UNCHANGED <<plan, stepIdx, events, results, browser, page, sinkUp, exc, ret,
                   driverLog, handlerEnds>>

\* Line 103, after the loop has ended or was left by break
Completed ==
    /\ UNCHANGED <<resolverVars, extractVars, sessionVars>>
    /\ \/ pc = "loop" /\ stepIdx = Len(plan)
       \/ pc = "broke"
    /\ \E sent \in SinkChoices :
          IF sent
          THEN /\ events' = Append(events, EvStatus(<<"Task completed">>, "completed"))
               /\ returning' = "results"
               /\ pc' = "finally"
               /\ UNCHANGED <<sinkUp, exc>>
          ELSE SinkRaises /\ UNCHANGED <<events, returning>>
    /\ UNCHANGED <<plan, stepIdx, results, browser, page, ret, driverLog, handlerEnds>>

\* The except clauses of lines 105-112: one fatal error event
OuterExcept ==
    /\ UNCHANGED <<resolverVars, extractVars, sessionVars>>
    /\ pc = "except"
    /\ pc' = "finally"
    /\ \E sent \in SinkChoices :
          IF sent
          THEN /\ events' = Append(events,
                       EvFatal(<<IF exc = "NotImplementedError"
                                 THEN "Playwright subprocess error" ELSE "Browser error">>))
               /\ exc' = "none"
               /\ returning' = "results"
               /\ UNCHANGED sinkUp
          ELSE /\ sinkUp' = FALSE
               /\ exc' = "Exception"
               /\ UNCHANGED <<events, returning>>
    /\ UNCHANGED <<plan, stepIdx, results, browser, page, ret, driverLog, handlerEnds>>

CloseOpsIfPage == IF page THEN <<"close">> ELSE <<>>

\* if browser: await browser.close()
CloseOps == IF browser THEN <<"close">> ELSE <<>>

\* The finally clause, then the pending return or the propagating exception
Finally ==
    /\ UNCHANGED <<resolverVars, extractVars, sessionVars>>
    /\ pc = "finally"
    /\ driverLog' = driverLog \o CloseOps
    /\ IF exc # "none"
       THEN pc' = "propagated" /\ ret' = ret
       ELSE /\ pc' = "returned"
            /\ ret' = IF returning = "empty" THEN <<>> ELSE results
    /\ UNCHANGED <<plan, stepIdx, events, results, browser, page, sinkUp, exc, returning,
                   handlerEnds>>

ResolverIdle ==
    /\ rCands = <<>>
    /\ rAppear = <<>>
    /\ rPc = "idle"
    /\ rSel = 0
    /\ rAttempt = 0
    /\ rCalls = <<>>
    /\ rSleeps = <<>>
    /\ rResult = "None"

ExtractIdle ==
    /\ xStep = Step("extract_products")
    /\ xSnapshot = <<>>
    /\ xPc = "idle"
    /\ xOut = Outcome(<<>>, "none", "", <<>>)

\* The two websocket clients of the session specification.
Clients == {1, 2}

SessionIdle ==
    /\ sPc = [c \in Clients |-> "off"]
    /\ sRun = [c \in Clients |-> 0]
    /\ sBrowser = [c \in Clients |-> 0]
    /\ sContext = [c \in Clients |-> 0]
    /\ sPage = [c \in Clients |-> 0]
    /\ sObjs = <<>>
    /\ sLog = [c \in Clients |-> {}]

Init ==
    /\ ResolverIdle
    /\ ExtractIdle
    /\ SessionIdle
    /\ plan \in Plans
    /\ pc = "start"
    /\ stepIdx = 0
    /\ events = <<>>
    /\ results = <<>>
    /\ browser = FALSE
    /\ page = FALSE
    /\ sinkUp = TRUE
    /\ exc = "none"
    /\ returning = "none"
    /\ ret = <<>>
    /\ driverLog = <<>>
    /\ handlerEnds = <<>>

Next ==
    \/ StartPlaywright
    \/ LaunchBrowser
    \/ NewContext
    \/ StartStep
    \/ DoNavigate
    \/ DoWaitFor
    \/ DoType
    \/ DoClick
    \/ DoFilterPrice
    \/ DoFilterRating
    \/ DoExtractProducts
    \/ DoFillFormField
    \/ DoSubmitForm
    \/ DoUnsupported
    \/ DoUnknown
    \/ Completed
    \/ OuterExcept
    \/ Finally

Spec == Init /\ [][Next]_vars

----------------------------------------------------------------------------
(* Properties of run_action_plan *)

IsStart(e) == e.type = "action_start"
IsError(e) == e.type = "error"
Starts == SelectSeq(events, IsStart)
Errors == SelectSeq(events, IsError)

Count(q, x) == Cardinality({i \in 1..Len(q) : q[i] = x})

\* Position in events of the action_start of step i, 0 when it was not sent.
StartPos(i) ==
    IF \E j \in 1..Len(events) : IsStart(events[j]) /\ events[j].step = i
    THEN CHOOSE j \in 1..Len(events) : IsStart(events[j]) /\ events[j].step = i
    ELSE 0

Started(i) == StartPos(i) # 0

\* The events sent after the action_start of step i and before the next
\* action_start (or the end of the stream).
StepEvents(i) ==
    LET from == StartPos(i) + 1
        later == {j \in from..Len(events) : IsStart(events[j])}
        to == IF later = {} THEN Len(events)
              ELSE (CHOOSE j \in later : \A k \in later : j <= k) - 1
    IN  SubSeq(events, from, to)

\* The number of steps a run dispatches: up to and including the first
\* unsupported step.
RunLength ==
    LET stops == {i \in 1..Len(plan) : plan[i].action = "unsupported"}
    IN  IF stops = {} THEN Len(plan) ELSE CHOOSE i \in stops : \A k \in stops : i <= k

\* The run ended by returning and the sink accepted every event.
CleanReturn == pc = "returned" /\ sinkUp

\* C1: the i-th action_start event carries step number i, the action of the
\* i-th plan step and the plan's length; steps are started one at a time, in
\* plan order: while a handler runs (pc = "dispatch") the last event is the
\* action_start of exactly that step, a step is started only after the previous
\* dispatch has ended, and when the loop reaches the end of the plan every step
\* has been started once.
C1_StartOrder ==
    LET starts == Starts
    IN  /\ \A i \in 1..Len(starts) :
              /\ i <= Len(plan)
              /\ starts[i].step = i
              /\ starts[i].action = plan[i].action
              /\ starts[i].total = Len(plan)
        /\ Len(starts) \in {stepIdx, stepIdx + 1}
        /\ Len(handlerEnds) \in {Len(starts) - 1, Len(starts)}
        /\ pc = "dispatch" =>
              /\ Len(starts) = stepIdx + 1
              /\ Len(handlerEnds) = stepIdx
              /\ events[Len(events)] = starts[stepIdx + 1]
        /\ pc = "loop" => Len(starts) = stepIdx /\ Len(handlerEnds) = stepIdx
        /\ (CleanReturn /\ page) => Len(starts) = RunLength

\* C1 witness: a two-step plan of two different actions has run to its end.
C1_Witness ==
    /\ CleanReturn
    /\ Len(plan) = 2
    /\ Len(Starts) = 2
    /\ plan[1].action # plan[2].action

UnsupportedError(step) ==
    Ev("error", "", <<IF step.reason = "NONE" THEN "Unsupported action" ELSE step.reason>>)

\* C6: in a 5-step plan whose step 2 is the (first) unsupported step, no
\* action_start is sent for steps 3 to 5 and no dispatch happens for them; the
\* events from step 2's action_start on hold at most one error event, and in a
\* run that returned with every event delivered exactly one, carrying step 2's
\* reason; it is the only error event of the run unless step 1 reported one.
C6_UnsupportedStops ==
    (Len(plan) = 5 /\ RunLength = 2) =>
        /\ \A i \in 1..Len(Starts) : Starts[i].step <= 2
        /\ stepIdx <= 1
        /\ Len(handlerEnds) <= 2
        /\ Started(2) => Len(SelectSeq(StepEvents(2), IsError)) <= 1
        /\ (CleanReturn /\ page) =>
              /\ SelectSeq(StepEvents(2), IsError) = <<UnsupportedError(plan[2])>>
              /\ Len(Errors) = 1 + Len(SelectSeq(StepEvents(1), IsError))

\* C6 witness: such a run has returned with a single error event, the reason
\* of step 2.
C6_Witness ==
    /\ CleanReturn
    /\ Len(plan) = 5
    /\ RunLength = 2
    /\ plan[2].reason # "NONE"
    /\ Errors = <<UnsupportedError(plan[2])>>
    /\ Len(Starts) = 2

LaunchFailed == \E i \in 1..Len(driverLog) : driverLog[i] = "launch!"

\* C7: once the browser launch has failed, no event other than an error event
\* is ever sent (no action_start, no step event) and at most one event in all;
\* when the sink accepts it, the event stream is exactly the launch error, the
\* function goes to its return, and it returns the empty list.
C7_LaunchFailure ==
    LaunchFailed =>
        /\ \A j \in 1..Len(events) : events[j].type = "error"
        /\ Len(events) <= 1
        /\ handlerEnds = <<>>
        /\ sinkUp =>
              /\ events = <<Ev("error", "", <<"Failed to launch browser">>)>>
              /\ pc \in {"finally", "returned"}
        /\ pc = "returned" => ret = <<>>

\* C7 witness: the launch failed for a two-step plan and the run returned.
C7_Witness ==
    /\ LaunchFailed
    /\ pc = "returned"
    /\ Len(plan) = 2
    /\ Len(events) = 1

\* The events of step i have all been delivered.
Delivered(i) == i < Len(handlerEnds) \/ sinkUp

HandlerError(i) ==
    Ev("error", "", <<"Error in", plan[i].action, handlerEnds[i].fail>>)

\* C8: when the handler of step i raised, the events of step i hold exactly one
\* error event, naming step i's action and the failure text; step i + 1 is
\* then started (that error event directly precedes its action_start), and in
\* a run that returned with every event delivered every later step up to the
\* first unsupported step has its action_start.
C8_FailureIsolation ==
    \A i \in 1..Len(handlerEnds) :
        (handlerEnds[i].end = "raise" /\ Delivered(i)) =>
            /\ plan[i].action \in Handled
            /\ SelectSeq(StepEvents(i), IsError) = <<HandlerError(i)>>
            /\ i < Len(plan) =>
                  \/ Started(i + 1) /\ events[StartPos(i + 1) - 1] = HandlerError(i)
                  \/ pc = "loop" /\ stepIdx = i
                  \/ ~sinkUp
            /\ (CleanReturn /\ page) => \A j \in (i + 1)..RunLength : Started(j)

\* C8 witness: the handler of step 1 of a two-step plan raised and step 2 was
\* started.
C8_Witness ==
    /\ CleanReturn
    /\ Len(plan) = 2
    /\ Len(handlerEnds) = 2
    /\ handlerEnds[1].end = "raise"
    /\ Started(2)

\* C9: after each dispatched step whose handler returned or raised, an
\* action_complete event for the step's action is sent before the next step's
\* action_start.
C9_CompleteAfterEachStep ==
    \A i \in 1..Len(handlerEnds) :
        (handlerEnds[i].end \in {"ok", "raise"} /\ Started(i + 1)) =>
            \E j \in StartPos(i)..StartPos(i + 1) :
                events[j] = Ev("action_complete", plan[i].action, <<>>)

Closes == Count(driverLog, "close")

\* C10: when run_action_plan has returned or propagated, browser.close() has
\* been called exactly once if the launch succeeded (and never if it did not);
\* it is not called before the function leaves.
C10_SessionReleased ==
    /\ pc \in {"returned", "propagated"} => Closes = (IF browser THEN 1 ELSE 0)
    /\ pc \notin {"returned", "propagated"} => Closes = 0

\* C10 witness: the launch succeeded, creating the page failed, the sink raised
\* on the fatal error event, and the exception left run_action_plan.
C10_Witness ==
    /\ pc = "propagated"
    /\ browser
    /\ ~page
    /\ ~sinkUp
    /\ Closes = 1

\* C11: no exception leaves run_action_plan once the browser session has been
\* acquired: whatever the driver and the event sink do after the launch, the
\* function returns normally (an exception may leave it only when no session
\* was acquired).
C11_NoExceptionEscapes ==
    pc = "propagated" => ~browser

IsCompleted(e) == e.type = "status" /\ e.status = "completed"

\* The step loop ran to the end of the plan, the function is past line 103 and
\* the sink accepted every event.
LoopRanOut ==
    /\ page
    /\ sinkUp
    /\ stepIdx = Len(plan)
    /\ pc \in {"finally", "returned"}

\* C12: the "completed" status event is sent at most once and nothing is sent
\* after it; it is sent only after the last dispatch; and in a run whose step
\* loop reached the end of the plan it has been sent exactly once, as the last
\* event, after the action_start (and so every event) of each of the steps.
C12_CompletedOnce ==
    /\ Cardinality({j \in 1..Len(events) : IsCompleted(events[j])}) <= 1
    /\ \A j \in 1..Len(events) :
          IsCompleted(events[j]) =>
              /\ j = Len(events)
              /\ pc \in {"finally", "returned"}
              /\ Len(handlerEnds) = RunLength
    /\ LoopRanOut =>
          /\ events # <<>>
          /\ IsCompleted(events[Len(events)])
          /\ Len(Starts) = Len(plan)
          /\ \A i \in 1..Len(plan) : Started(i) /\ StartPos(i) < Len(events)

\* C12 witness: a two-step plan ran to its end, the second handler having
\* raised, and the run returned after the "completed" status.
C12_Witness ==
    /\ LoopRanOut
    /\ pc = "returned"
    /\ Len(plan) = 2
    /\ handlerEnds[2].end = "raise"
    /\ IsCompleted(events[Len(events)])

\* The driver calls of step i include op.
Did(i, op) == \E k \in 1..Len(handlerEnds[i].ops) : handlerEnds[i].ops[k] = op

\* C16: when a filter_price step with max_price M could not apply the filter
\* through the UI (its fills failed) and a later extract_products step on a
\* generic-product site carries no price bounds of its own (as the rule-based
\* planner builds it), every item that extract step returns has a price of at
\* most M.
C16_PriceBoundCarried ==
    \A i \in 1..Len(handlerEnds) : \A j \in (i + 1)..Len(handlerEnds) :
        ( /\ plan[i].action = "filter_price"
          /\ plan[i].max_price # 0
          /\ Did(i, "fill!")
          /\ plan[j].action = "extract_products"
          /\ plan[j].site # "zomato"
          /\ plan[j].max_price = 0 /\ plan[j].min_price = 0 ) =>
            \A k \in 1..Len(handlerEnds[j].items) :
                LET price == handlerEnds[j].items[k].price
                IN  price = <<>> \/ PyInt(price) <= plan[i].max_price

\* The handler of step i ran to its end and the sink took its events.
Ran(i, action) ==
    /\ plan[i].action = action
    /\ handlerEnds[i].end \in {"ok", "raise"}
    /\ Delivered(i)

\* No selector given to the resolver by step i resolved.
Unresolved(i) == Did(i, "wait_for_selector!") /\ ~Did(i, "wait_for_selector")

\* The first n events of step i.
FirstEvents(i, n) ==
    LET evs == StepEvents(i) IN SubSeq(evs, 1, IF n < Len(evs) THEN n ELSE Len(evs))

\* C17 as claimed: a fill_form_field step none of whose candidate inputs
\* resolves fails (the dispatcher sends an error event for it) and fills
\* nothing.
C17_FillFailsWhenUnresolved ==
    \A i \in 1..Len(handlerEnds) :
        (Ran(i, "fill_form_field") /\ Unresolved(i)) =>
            /\ SelectSeq(StepEvents(i), IsError) # <<>>
            /\ ~Did(i, "fill") /\ ~Did(i, "fill!")

\* C17 as amended: a fill_form_field step none of whose candidate inputs
\* resolves (MAX_RETRIES waits on each of the four candidates) fills nothing,
\* sends the warning "Field not found" and returns: no error event is sent for
\* the step and its action_complete follows the warning.
C17_FillWarnsWhenUnresolved ==
    \A i \in 1..Len(handlerEnds) :
        (Ran(i, "fill_form_field") /\ Unresolved(i)) =>
            /\ handlerEnds[i].ops = Repeat("wait_for_selector!", MAX_RETRIES * FORM_SELECTORS)
            /\ handlerEnds[i].end = "ok"
            /\ SelectSeq(StepEvents(i), IsError) = <<>>
            /\ FirstEvents(i, 2) = <<Ev("warning", "", <<"Field not found">>),
                                     Ev("action_complete", "fill_form_field", <<>>)>>

\* C17 witness: the first step was a fill_form_field whose field did not
\* resolve, and the second step was started after it.
C17_Witness ==
    /\ Len(handlerEnds) >= 1
    /\ Ran(1, "fill_form_field")
    /\ Unresolved(1)
    /\ Started(2)

IsClick(op) == op \in {"click", "click!"}

\* The page.click calls of step i, in order.
ClickOps(i) == SelectSeq(handlerEnds[i].ops, IsClick)

\* The driver call step i made after its first n calls ("" when none).
OpAfter(i, n) ==
    IF n < Len(handlerEnds[i].ops) THEN handlerEnds[i].ops[n + 1] ELSE ""

\* Every candidate click of step i failed.
AllClicksFailed(i) == ClickOps(i) = Repeat("click!", plan[i].ncand)

\* The clicks of a click step come first, one per candidate in order, and stop
\* at the first that succeeds.
ClicksInOrder(i) ==
    /\ SubSeq(handlerEnds[i].ops, 1, Len(ClickOps(i))) = ClickOps(i)
    /\ \/ AllClicksFailed(i)
       \/ \E m \in 0..(plan[i].ncand - 1) :
             ClickOps(i) = Repeat("click!", m) \o <<"click">>

Resolved(i) == Did(i, "wait_for_selector")

NavigationTimedOut(i) == Did(i, "goto_timeout!") \/ Did(i, "title_timeout!")

\* C20: a navigate step whose navigation times out sends a warning and
\* returns: its handler raises nothing, no error event is sent for the step,
\* its action_complete follows the warning, and the loop goes on to the next
\* step (in runs where the sink accepts the events).
C20_NavigateTimeoutWarns ==
    \A i \in 1..Len(handlerEnds) :
        (Ran(i, "navigate") /\ NavigationTimedOut(i)) =>
            /\ handlerEnds[i].end = "ok"
            /\ SelectSeq(StepEvents(i), IsError) = <<>>
            /\ FirstEvents(i, 3) = <<Ev("action", "navigate", <<"Navigating">>),
                                     Ev("warning", "", <<"Navigation timeout">>),
                                     Ev("action_complete", "navigate", <<>>)>>
            /\ i < Len(plan) =>
                  \/ Started(i + 1) /\ StartPos(i + 1) = StartPos(i) + 4
                  \/ pc = "loop" /\ stepIdx = i
                  \/ ~sinkUp

\* C20 witness: the goto of the first step timed out and the second step was
\* started; the run returned.
C20_Witness ==
    /\ CleanReturn
    /\ Len(handlerEnds) = 2
    /\ Ran(1, "navigate")
    /\ Did(1, "goto_timeout!")
    /\ Started(2)

\* C21: once send_event has raised (the consumer has disconnected) the run is
\* abandoned: the step in which it raised enters no further driver call, no
\* later step is started or dispatched, the function is on its way out, and
\* when it has left, the browser it launched has been closed.
C21_DisconnectAbandons ==
    ~sinkUp =>
        /\ \A i \in 1..Len(handlerEnds) : handlerEnds[i].late = <<>>
        /\ pc \in {"except", "finally", "propagated"}
        /\ Len(Starts) <= stepIdx + 1
        /\ (pc = "propagated" /\ browser) => Closes = 1

\* The part of C21 the code keeps: after send_event has raised no step is
\* started or dispatched, the only driver calls are the page.title() of the
\* extract handler's except clause and browser.close(), and the browser is
\* closed when the function is left.
C21_NoLaterStep ==
    ~sinkUp =>
        /\ \A i \in 1..Len(handlerEnds) :
              /\ handlerEnds[i].late \in {<<>>, <<"title">>, <<"title!">>}
              /\ handlerEnds[i].late # <<>> =>
                    i = Len(handlerEnds) /\ plan[i].action = "extract_products"
        /\ pc \in {"except", "finally", "propagated"}
        /\ Len(Starts) <= stepIdx + 1
        /\ Len(handlerEnds) <= stepIdx + 1
        /\ (pc = "propagated" /\ browser) => Closes = 1

\* The positions of the plan's extract_products steps.
ExtractIdx == {i \in 1..Len(plan) : plan[i].action = "extract_products"}

RECURSIVE Gathered(_)
\* The lists returned by the handlers of the first n dispatched steps, joined.
Gathered(n) == IF n = 0 THEN <<>> ELSE Gathered(n - 1) \o handlerEnds[n].items

RECURSIVE CountSum(_)
\* The counts of the extract_products steps among the first n steps, added up.
CountSum(n) ==
    IF n = 0 THEN 0
    ELSE CountSum(n - 1) + (IF n \in ExtractIdx THEN plan[n].count ELSE 0)

\* C22: the list run_action_plan returns is no longer than the requested
\* count (the count of an extract_products step of the plan; the largest, if
\* they differ), also when the plan has several extract_products steps.
C22_ResultsWithinCount ==
    (pc = "returned" /\ ExtractIdx # {}) =>
        \E i \in ExtractIdx : Len(ret) <= plan[i].count

\* What the code keeps of C22: results is the lists of the dispatched extract
\* steps joined in plan order, each no longer than its own step's count, so
\* the returned list is no longer than the sum of the counts.
C22_ResultsWithinSum ==
    /\ results = Gathered(Len(handlerEnds))
    /\ \A i \in 1..Len(handlerEnds) :
          /\ i \notin ExtractIdx => handlerEnds[i].items = <<>>
          /\ i \in ExtractIdx => Len(handlerEnds[i].items) <= plan[i].count
    /\ Len(results) <= CountSum(Len(plan))
    /\ pc = "returned" => ret = (IF page THEN results ELSE <<>>)

IsStatus(e) == e.type = "status"

\* The events of step i: those after its action_start, up to the next
\* action_start or the closing status event.
StepOwn(i) ==
    LET evs == StepEvents(i)
        stops == {j \in 1..Len(evs) : IsStatus(evs[j])}
    IN  IF stops = {} THEN evs
        ELSE SubSeq(evs, 1, (CHOOSE j \in stops : \A k \in stops : j <= k) - 1)

\* action_start, then action, warning and error events, then action_complete.
StartToComplete(i) ==
    LET own == StepOwn(i)
    IN  /\ own # <<>>
        /\ own[Len(own)] = Ev("action_complete", plan[i].action, <<>>)
        /\ \A j \in 1..(Len(own) - 1) : own[j].type \in {"action", "warning", "error"}

\* C23: the events of every dispatched step, once the step is over, are its
\* action_start, then action, warning and error events, then its
\* action_complete as the last event before the next step's action_start.
C23_PerStepOrdering ==
    \A i \in 1..Len(handlerEnds) :
        (handlerEnds[i].end \in {"ok", "raise", "break"} /\ Delivered(i)) =>
            StartToComplete(i)

\* What the code keeps of C23: a step whose handler returned has that shape; a
\* step whose handler raised, and an unsupported step, end with their error
\* event and have no action_complete.
C23_ReturnedStepsOrdered ==
    \A i \in 1..Len(handlerEnds) :
        Delivered(i) =>
            /\ handlerEnds[i].end = "ok" => StartToComplete(i)
            /\ handlerEnds[i].end \in {"raise", "break"} =>
                  LET own == StepOwn(i)
                  IN  /\ own # <<>>
                      /\ own[Len(own)].type = "error"
                      /\ \A j \in 1..Len(own) :
                            own[j].type \in {"action", "warning", "error"}

\* The extract_products step i went through its except clause (the only place
\* that calls page.title()): page.evaluate raised, or the validation and
\* filtering after it did; and its events were delivered.
ExtractFailed(i) ==
    /\ plan[i].action = "extract_products"
    /\ Did(i, "title") \/ Did(i, "title!")
    /\ Delivered(i)

\* C29: an extract_products step whose script evaluation, validation or
\* filtering failed has exactly one error event among its events and returns
\* nothing: results is what the earlier steps had gathered, items of earlier
\* extract steps included; the next step of the plan is started, and in a run
\* that returned every later step up to the first unsupported one was started.
C29_ExtractFailureIsolated ==
    /\ results = Gathered(Len(handlerEnds))
    /\ \A i \in 1..Len(handlerEnds) :
          ExtractFailed(i) =>
              /\ Len(SelectSeq(StepEvents(i), IsError)) = 1
              /\ handlerEnds[i].items = <<>>
              /\ Gathered(i) = Gathered(i - 1)
              /\ SubSeq(results, 1, Len(Gathered(i - 1))) = Gathered(i - 1)
              /\ i < Len(plan) =>
                    \/ Started(i + 1)
                    \/ pc = "loop" /\ stepIdx = i
                    \/ ~sinkUp
              /\ (CleanReturn /\ page) => \A j \in (i + 1)..RunLength : Started(j)

\* C29 witness: the first extract step returned an item, the filtering of the
\* second raised (its script had run); the run returned that one item.
C29_Witness ==
    /\ CleanReturn
    /\ Len(plan) = 2
    /\ Len(handlerEnds) = 2
    /\ handlerEnds[1].items # <<>>
    /\ ExtractFailed(2)
    /\ Did(2, "evaluate")
    /\ ret = handlerEnds[1].items

\* The evaluation of the first step failed, page.title() raised as well, and
\* the second step was started and extracted.
C29_NextStepRuns ==
    /\ CleanReturn
    /\ Len(plan) = 2
    /\ Len(handlerEnds) = 2
    /\ ExtractFailed(1)
    /\ Did(1, "evaluate!")
    /\ Did(1, "title!")
    /\ Started(2)
    /\ ret = handlerEnds[2].items
    /\ ret # <<>>

IsSubmitted(e) == e.type = "action" /\ e.action = "submit_form"

\* C32: a submit_form step clicks a submit control when one resolved and
\* presses Enter when none did, and then sends the submit_form action event,
\* once; the load wait after it may fail without consequence: a step whose
\* submit control did not resolve and whose load wait timed out has no error
\* event and its handler returns.
C32_SubmitFallsBack ==
    \A i \in 1..Len(handlerEnds) :
        Ran(i, "submit_form") =>
            /\ Resolved(i) => Did(i, "click") /\ ~Did(i, "press_enter")
            /\ Unresolved(i) => Did(i, "press_enter") /\ ~Did(i, "click")
            /\ Len(SelectSeq(StepEvents(i), IsSubmitted)) = 1
            /\ (Unresolved(i) /\ Did(i, "wait_for_load_state!")) =>
                  /\ handlerEnds[i].end = "ok"
                  /\ SelectSeq(StepEvents(i), IsError) = <<>>

\* What holds: the click is tried when a control resolved and Enter when none
\* did, never both; when that call returns the event is sent once and the
\* handler returns whatever the load wait does, with no error event; when it
\* raises, the step has the dispatcher's error event and no submit_form event.
C32_SubmitBestEffort ==
    \A i \in 1..Len(handlerEnds) :
        Ran(i, "submit_form") =>
            LET tried == {op \in {"click", "click!", "click_timeout!",
                                  "press_enter", "press_enter!"} : Did(i, op)}
            IN  /\ Cardinality(tried) = 1
                /\ Resolved(i) <=> tried \subseteq {"click", "click!", "click_timeout!"}
                /\ IF tried \subseteq {"click", "press_enter"}
                   THEN /\ handlerEnds[i].end = "ok"
                        /\ Len(SelectSeq(StepEvents(i), IsSubmitted)) = 1
                        /\ SelectSeq(StepEvents(i), IsError) = <<>>
                        /\ Did(i, "wait_for_load_state") \/ Did(i, "wait_for_load_state!")
                   ELSE /\ handlerEnds[i].end = "raise"
                        /\ SelectSeq(StepEvents(i), IsSubmitted) = <<>>
                        /\ SelectSeq(StepEvents(i), IsError) = <<HandlerError(i)>>

\* The second candidate resolved after the first had failed its three waits;
\* the click on the first candidate timed out: nothing was clicked, Enter was
\* not pressed, and the step ended with an error event.
C32_ResolvedNotClicked ==
    /\ CleanReturn
    /\ Len(handlerEnds) >= 1
    /\ Ran(1, "submit_form")
    /\ handlerEnds[1].ops = <<"wait_for_selector!", "wait_for_selector!",
                              "wait_for_selector!", "wait_for_selector",
                              "click_timeout!">>
    /\ SelectSeq(StepEvents(1), IsError) = <<HandlerError(1)>>

\* No control resolved, Enter was pressed, the load wait timed out: no error.
C32_EnterThenTimeout ==
    /\ CleanReturn
    /\ Len(handlerEnds) >= 1
    /\ Ran(1, "submit_form")
    /\ Unresolved(1)
    /\ Did(1, "press_enter")
    /\ Did(1, "wait_for_load_state!")
    /\ SelectSeq(StepEvents(1), IsError) = <<>>

CompletedEvent == EvStatus(<<"Task completed">>, "completed")

\* C33: once an unsupported step has sent its error event, the run stops
\* there but still completes: the step gets no action_complete and no later
\* step is started or dispatched; the only event that can follow the error is
\* the status event "completed"; and the function returns what the steps
\* before the unsupported one had gathered.
C33_UnsupportedStillCompletes ==
    \A i \in 1..Len(handlerEnds) :
        handlerEnds[i].end = "break" =>
            /\ plan[i].action = "unsupported"
            /\ i = Len(handlerEnds)
            /\ \A j \in (i + 1)..Len(plan) : ~Started(j)
            /\ StepEvents(i) \in {<<UnsupportedError(plan[i])>>,
                                  <<UnsupportedError(plan[i]), CompletedEvent>>}
            /\ results = Gathered(i - 1)
            /\ pc = "returned" =>
                  /\ events[Len(events)] = CompletedEvent
                  /\ events[Len(events) - 1] = UnsupportedError(plan[i])
                  /\ ret = Gathered(i - 1)

\* C33 witness: an extract step returned items, the unsupported second step
\* stopped the run, and the run returned those items after "completed".
C33_Witness ==
    /\ pc = "returned"
    /\ Len(plan) = 2
    /\ Len(handlerEnds) = 2
    /\ handlerEnds[2].end = "break"
    /\ handlerEnds[1].items # <<>>
    /\ ret = handlerEnds[1].items
    /\ events[Len(events)] = CompletedEvent

\* Step i carries an action string that is none of the nine handled kinds and
\* is not "unsupported", and the events of its dispatch were delivered.
UnknownStep(i) ==
    /\ plan[i].action \notin Handled \cup {"unsupported"}
    /\ Delivered(i)

\* C34: a step with an unknown action string does not stop the run: its events
\* are exactly one "Unknown action" error event followed by its
\* action_complete; it makes no driver call and adds nothing to results; and
\* the next step of the plan is started.
C34_UnknownActionContinues ==
    \A i \in 1..Len(handlerEnds) :
        UnknownStep(i) =>
            /\ handlerEnds[i].end = "ok"
            /\ handlerEnds[i].ops = <<>>
            /\ StepOwn(i) = <<Ev("error", "", <<"Unknown action", plan[i].action>>),
                              Ev("action_complete", plan[i].action, <<>>)>>
            /\ Gathered(i) = Gathered(i - 1)
            /\ i = Len(handlerEnds) => results = Gathered(i - 1)
            /\ i < Len(plan) =>
                  \/ Started(i + 1)
                  \/ pc = "loop" /\ stepIdx = i
                  \/ ~sinkUp
            /\ (CleanReturn /\ page) => \A j \in (i + 1)..RunLength : Started(j)

\* C34 witness: the unknown first step was followed by an extract step whose
\* items the run returned.
C34_Witness ==
    /\ CleanReturn
    /\ Len(plan) = 2
    /\ Len(handlerEnds) = 2
    /\ UnknownStep(1)
    /\ plan[2].action = "extract_products"
    /\ ret # <<>>
    /\ ret = handlerEnds[2].items

----------------------------------------------------------------------------
(* _find_selector_with_retry, one await at a time *)

RETRY_DELAY == 1

SelectorNames == <<"#a", "#b", "#c", "#d", "#e">>

\* The candidate lists: selectors.split(",") is never empty.
CandLists == {SubSeq(SelectorNames, 1, n) : n \in 1..MaxCands}

Range(q) == {q[i] : i \in 1..Len(q)}

\* The page: selector sel is visible from wait call number rAppear[sel] on, and
\* never when that is 0.  A resolver call makes at most MAX_RETRIES waits per
\* candidate.
Visible(sel, call) == rAppear[sel] # 0 /\ call >= rAppear[sel]

WaitCall(sel, attempt, ok) == [sel |-> sel, attempt |-> attempt, ok |-> ok]

RetriesLeftNone(attempt) == FALSE

\* for attempt in range(MAX_RETRIES): another attempt follows this one
RetriesLeft(attempt) == attempt < MAX_RETRIES - 1

\* await page.wait_for_selector(selector, timeout=timeout, state="visible"):
\* return the element, or go on to the sleep, the next candidate or return None
RWait ==
    /\ rPc = "wait"
    /\ LET sel == rCands[rSel]
           ok == Visible(sel, Len(rCalls) + 1)
       IN  /\ rCalls' = Append(rCalls, WaitCall(sel, rAttempt, ok))
           /\ IF ok
              THEN /\ rResult' = sel
                   /\ rPc' = "done"
                   /\ UNCHANGED <<rSel, rAttempt>>
              ELSE IF RetriesLeft(rAttempt)
              THEN /\ rPc' = "sleep"
                   /\ UNCHANGED <<rSel, rAttempt, rResult>>
              ELSE IF rSel < Len(rCands)
              THEN /\ rSel' = rSel + 1
                   /\ rAttempt' = 0
                   /\ UNCHANGED <<rPc, rResult>>
              ELSE /\ rPc' = "done"
                   /\ rResult' = "None"
                   /\ UNCHANGED <<rSel, rAttempt>>
    /\ UNCHANGED <<rCands, rAppear, rSleeps>>
    /\ UNCHANGED <<dispatcherVars, extractVars, sessionVars>>

DelayConstant(attempt) == RETRY_DELAY

\* RETRY_DELAY * (attempt + 1), attempt counted from 0
Delay(attempt) == RETRY_DELAY * (attempt + 1)

\* await asyncio.sleep(RETRY_DELAY * (attempt + 1)), then the next attempt
RSleep ==
    /\ rPc = "sleep"
    /\ rSleeps' = Append(rSleeps, Delay(rAttempt))
    /\ rAttempt' = rAttempt + 1
    /\ rPc' = "wait"
    /\ UNCHANGED <<rCands, rAppear, rSel, rCalls, rResult>>
    /\ UNCHANGED <<dispatcherVars, extractVars, sessionVars>>

DispatcherIdle ==
    /\ plan = <<>>
    /\ pc = "idle"
    /\ stepIdx = 0
    /\ events = <<>>
    /\ results = <<>>
    /\ browser = FALSE
    /\ page = FALSE
    /\ sinkUp = TRUE
    /\ exc = "none"
    /\ returning = "none"
    /\ ret = <<>>
    /\ driverLog = <<>>
    /\ handlerEnds = <<>>

InitResolver ==
    /\ DispatcherIdle
    /\ ExtractIdle
    /\ SessionIdle
    /\ rCands \in CandLists
    /\ rAppear \in [Range(rCands) -> 0..(MAX_RETRIES * Len(rCands))]
    /\ rPc = "wait"
    /\ rSel = 1
    /\ rAttempt = 0
    /\ rCalls = <<>>
    /\ rSleeps = <<>>
    /\ rResult = "None"

NextResolver == RWait \/ RSleep

SpecResolver == InitResolver /\ [][NextResolver]_vars

\* Every await of the resolver returns: wait_for_selector resolves or times out
\* after `timeout` milliseconds, asyncio.sleep returns after its delay.
SpecResolverLive == SpecResolver /\ WF_vars(NextResolver)

----------------------------------------------------------------------------
(* Properties of _find_selector_with_retry *)

\* Candidate i is not visible during any of its attempts.
NeverSeen(i) == rAppear[rCands[i]] = 0 \/ rAppear[rCands[i]] > 3 * i

\* Candidate i is visible on its first attempt.
SeenAtFirst(i) == rAppear[rCands[i]] # 0 /\ rAppear[rCands[i]] <= 3 * (i - 1) + 1

FailedOn(sel) == Cardinality({g \in 1..Len(rCalls) : rCalls[g].sel = sel /\ ~rCalls[g].ok})
OkOn(sel) == Cardinality({g \in 1..Len(rCalls) : rCalls[g].sel = sel /\ rCalls[g].ok})

\* C4: when the first K candidates are never visible and candidate K + 1 is
\* visible on its first attempt, the waits go through the candidates in list
\* order, 3 per candidate (attempts 0, 1, 2); exactly the first 3 * K waits fail,
\* wait number 3 * K + 1 succeeds on candidate K + 1 and is the last: no later
\* candidate is waited for, and candidate K + 1 is returned.
C4_AttemptsBeforeSuccess ==
    \A K \in 0..(Len(rCands) - 1) :
        ((\A i \in 1..K : NeverSeen(i)) /\ SeenAtFirst(K + 1)) =>
            /\ \A g \in 1..Len(rCalls) :
                  /\ g <= 3 * K + 1
                  /\ rCalls[g].sel = rCands[((g - 1) \div 3) + 1]
                  /\ rCalls[g].attempt = (g - 1) % 3
                  /\ rCalls[g].ok <=> (g = 3 * K + 1)
            /\ rPc = "done" =>
                  /\ Len(rCalls) = 3 * K + 1
                  /\ rResult = rCands[K + 1]

\* C4 witness: three candidates, the first never visible, the second visible at
\* once: "#b" is returned after 3 failed waits and the third was not tried.
C4_Witness ==
    /\ rPc = "done"
    /\ Len(rCands) = 3
    /\ rAppear["#a"] = 0
    /\ rAppear["#b"] = 1
    /\ rAppear["#c"] = 1
    /\ rResult = "#b"
    /\ Len(rCalls) = 4

\* C5: with candidates <<"#a", "#b">>, "#a" never visible and "#b" visible from
\* the 2nd wait of the call on, the resolver returns "#b" after exactly 3 failed
\* waits on "#a" and 1 successful wait on "#b", 4 waits in all.  (When "#b" is
\* visible only from its own 2nd attempt on, wait number 5, one failed wait on
\* "#b" comes between them.)
C5_ScenarioC ==
    (rCands = <<"#a", "#b">> /\ rAppear["#a"] = 0 /\ rAppear["#b"] \in {2, 5}
        /\ rPc = "done") =>
        /\ rResult = "#b"
        /\ FailedOn("#a") = 3
        /\ OkOn("#a") = 0
        /\ OkOn("#b") = 1
        /\ rCalls[Len(rCalls)] = WaitCall("#b", IF rAppear["#b"] = 2 THEN 0 ELSE 1, TRUE)
        /\ \A g \in 1..3 : rCalls[g].sel = "#a"
        /\ FailedOn("#b") = (IF rAppear["#b"] = 2 THEN 0 ELSE 1)
        /\ Len(rCalls) = (IF rAppear["#b"] = 2 THEN 4 ELSE 5)

\* C5 witness: the scenario has run to its return.
C5_Witness ==
    /\ rCands = <<"#a", "#b">>
    /\ rAppear["#a"] = 0
    /\ rAppear["#b"] = 2
    /\ rPc = "done"
    /\ rResult = "#b"
    /\ Len(rCalls) = 4

\* What the resolver has returned, once it has: None exactly when every
\* candidate failed 3 waits, after 3 * N waits, none of them successful; and
\* otherwise the candidate of the last wait, the only successful one, no
\* candidate having been visible at any earlier wait made for it.
ReturnedAsClaimed ==
    /\ rResult = "None" <=> \A i \in 1..Len(rCands) : FailedOn(rCands[i]) = 3
    /\ rResult = "None" =>
          /\ Len(rCalls) = 3 * Len(rCands)
          /\ \A g \in 1..Len(rCalls) : ~rCalls[g].ok
    /\ rResult # "None" =>
          /\ rCalls # <<>>
          /\ rCalls[Len(rCalls)].ok
          /\ rCalls[Len(rCalls)].sel = rResult
          /\ Visible(rResult, Len(rCalls))
          /\ \A g \in 1..(Len(rCalls) - 1) :
                ~rCalls[g].ok /\ ~Visible(rCalls[g].sel, g)
          /\ Len(rCalls) <= 3 * Len(rCands)

\* C25: _find_selector_with_retry always returns; it returns the first visible
\* match its waits find, and it returns None exactly when each of the N
\* candidates failed all 3 attempts, after exactly 3 * N waits.  None is an
\* ordinary return value: the function is left by return, not by an exception.
C25_TerminatesWithFirstMatch ==
    /\ <>(rPc = "done")
    /\ [](rPc = "done" => ReturnedAsClaimed)

\* C25 witness: three candidates, none ever visible: None after 9 waits.
C25_Witness ==
    /\ rPc = "done"
    /\ rResult = "None"
    /\ Len(rCands) = 3
    /\ Len(rCalls) = 9
    /\ \A i \in 1..3 : FailedOn(rCands[i]) = 3

\* The sleeps the claim expects after the first n waits: i seconds after the
\* i-th failed attempt on a candidate for i = 1 and 2 (attempt index 0 and 1),
\* none after the 3rd failed attempt and none after a success.
RECURSIVE BackoffAfter(_)
BackoffAfter(n) ==
    IF n = 0 THEN <<>>
    ELSE LET c == rCalls[n]
         IN  BackoffAfter(n - 1) \o
                 (IF c.ok THEN <<>>
                  ELSE IF c.attempt = 0 THEN <<1>>
                  ELSE IF c.attempt = 1 THEN <<2>>
                  ELSE <<>>)

\* C26: the sleeps taken are exactly 1 second after a candidate's 1st failed
\* attempt and 2 seconds after its 2nd, in the order of the waits; nothing is
\* slept after a 3rd failed attempt or after a successful attempt.  (While the
\* resolver is about to sleep, the sleep for the last wait is still to come.)
C26_LinearBackoff ==
    /\ rPc # "sleep" => rSleeps = BackoffAfter(Len(rCalls))
    /\ rPc = "sleep" =>
          /\ rSleeps = BackoffAfter(Len(rCalls) - 1)
          /\ ~rCalls[Len(rCalls)].ok
          /\ rCalls[Len(rCalls)].attempt \in {0, 1}

\* C26 witness: "#a" failed three times (sleeps 1, 2, then none), "#b" failed
\* once (sleep 1) and then matched (no sleep).
C26_Witness ==
    /\ rPc = "done"
    /\ rCands = <<"#a", "#b">>
    /\ rResult = "#b"
    /\ Len(rCalls) = 5
    /\ rSleeps = <<1, 2, 1>>

----------------------------------------------------------------------------
(* _handle_extract_products on its own *)

Spaced == <<" ", "M", "a", " ", " ", "c", " ">>

\* Candidate containers: product cards and venue cards.
CardZeros == Container(<<Mac>>, Rupee(<<"0", ",", "0", "9", "9">>), <<>>, <<>>, "/p/1")
CardHundred == Container(<<Tv, Spaced>>, Rupee(<<"0", ",", "1", "0", "0">>), <<>>,
                         <<"3", ".", "9">>, "")
CardNoPrice == Container(<<Mac>>, <<>>, <<>>, <<"3", ".", "9">>, "/r/1")
CardShort == Container(<<Tv>>, Rupee(<<"2", ",", "5", "0", "0">>), <<>>, <<"5">>, "/p/1")
\* A price element whose digits read as 1000000000.
CardBillion == Container(<<Mac>>,
                         Rupee(<<"1", "0", "0", "0", "0", "0", "0", "0", "0", "0">>),
                         <<>>, <<"4", ".", "1">>, "/p/1")

\* A rating element that reads 9.9.
CardOffScale == Container(<<Mac>>, Rupee(<<"2", ",", "5", "0", "0">>), <<>>,
                          <<"9", ".", "9">>, "/p/1")

Cards ==
    {CardCheap, CardMid, CardZeros, CardHundred, CardText, CardNoPrice, CardShort,
     CardBillion, CardOffScale}

Snapshots == UNION {SeqsOf(Cards, n) : n \in 0..MaxContainers}

\* count = step.get("count", 3)
DEFAULT_COUNT == 3

ExtractSteps ==
    { [Step("extract_products") EXCEPT !.site = site, !.count = count,
          !.min_rating = min_rating, !.max_price = max_price, !.min_price = min_price] :
        site \in {"flipkart", "amazon", "zomato"},
        count \in 0..MaxCount,
        min_rating \in {0, 400},
        max_price \in {0, 1000},
        min_price \in {0, 200} }
    \cup
    { [Step("extract_products") EXCEPT !.site = site, !.count = DEFAULT_COUNT] :
        site \in {"flipkart", "zomato"} }

\* One call of the handler; the driver decides whether page.evaluate and
\* page.title return.
XExtract ==
    /\ xPc = "call"
    /\ \E evalOk \in BOOLEAN, titleOk \in BOOLEAN :
          xOut' = ExtractProducts(xStep, xSnapshot, evalOk, titleOk)
    /\ xPc' = "done"
    /\ UNCHANGED <<xStep, xSnapshot>>
    /\ UNCHANGED <<dispatcherVars, resolverVars, sessionVars>>

InitExtract ==
    /\ DispatcherIdle
    /\ ResolverIdle
    /\ SessionIdle
    /\ xStep \in ExtractSteps
    /\ xSnapshot \in Snapshots
    /\ xPc = "call"
    /\ xOut = Outcome(<<>>, "none", "", <<>>)

NextExtract == XExtract

SpecExtract == InitExtract /\ [][NextExtract]_vars

----------------------------------------------------------------------------
(* Properties of _handle_extract_products *)

\* C2: the list an extract_products step returns is never longer than the
\* step's requested count (a natural number), whatever the page, the site tag
\* and the filter parameters, and however the step ends.
C2_CountBound ==
    xPc = "done" => Len(xOut.items) <= xStep.count

\* C2 witness: three containers all yield valid items and the step asked for
\* two: the returned list was cut to two.
C2_Witness ==
    /\ xPc = "done"
    /\ xStep.count = 2
    /\ Len(Validate(xStep.site, ExtractionScript(xStep.site, xSnapshot))) = 3
    /\ ~RatingFilterOn(xStep)
    /\ ~PriceFilterOn(xStep)
    /\ Len(xOut.items) = 2

\* C3: every item returned by a step on a generic-product site (any site but
\* zomato) has a price that is a decimal integer text of value >= 100; an item
\* of a zomato step has an empty price or a positive integer price.
C3_PriceFloor ==
    xPc = "done" =>
        \A i \in 1..Len(xOut.items) :
            LET price == xOut.items[i].price
            IN  IF xStep.site # "zomato"
                THEN ~IntRaises(price) /\ PyInt(price) >= 100
                ELSE price = <<>> \/ (~IntRaises(price) /\ PyInt(price) >= 1)

\* C3 witness: a product step returned an item priced exactly 100 although the
\* page also held a card whose price text reads as 99.
C3_Witness ==
    /\ xPc = "done"
    /\ xStep.site = "flipkart"
    /\ xSnapshot = <<CardZeros, CardHundred>>
    /\ Len(xOut.items) = 1
    /\ xOut.items[1].price = <<"1", "0", "0">>

\* A venue step can return an item without a price.
C3_ListingWithoutPrice ==
    /\ xPc = "done"
    /\ xStep.site = "zomato"
    /\ \E i \in 1..Len(xOut.items) : xOut.items[i].price = <<>>

\* The events a call of the handler sent.
XEvents == EmitsOf(xOut.tr)

\* page.evaluate returned the script's list.
XEvaluated == \E i \in 1..Len(xOut.tr) : xOut.tr[i] = Op("evaluate")

\* The items the script found that pass the validation of lines 500-530.
XValid == Validate(xStep.site, ExtractionScript(xStep.site, xSnapshot))

\* A price within the step's bounds: at least min_price (0 when not given) and
\* at most max_price (no upper bound when not given); an item without a price
\* counts as within bounds.
InBounds(p) ==
    \/ p.price = <<>>
    \/ /\ PyInt(p.price) >= xStep.min_price
       /\ xStep.max_price # 0 => PyInt(p.price) <= xStep.max_price

\* C13: an extract_products step on a generic-product site whose script ran
\* returns exactly the first `count` of the valid items whose price lies within
\* [min_price or 0, max_price or unbounded]: every returned item is within the
\* bounds and at least 100, and the price filter drops no valid item that is
\* within them.
C13_PriceBounds ==
    (xPc = "done" /\ XEvaluated /\ xStep.site # "zomato") =>
        /\ xOut.items = Prefix(SelectSeq(XValid, InBounds), xStep.count)
        /\ \A i \in 1..Len(xOut.items) :
              InBounds(xOut.items[i]) /\ PyInt(xOut.items[i].price) >= 100

\* Every item a generic-product step returns lies within the bounds the step
\* gives (the half of C13 the code keeps).
C13_ReturnedWithinBounds ==
    (xPc = "done" /\ xStep.site # "zomato") =>
        \A i \in 1..Len(xOut.items) :
            InBounds(xOut.items[i]) /\ PyInt(xOut.items[i].price) >= 100

\* A step with only a lower bound dropped the item priced 1000000000.
C13_UnboundedMaxDrops ==
    /\ xPc = "done"
    /\ XEvaluated
    /\ xStep.site = "flipkart"
    /\ xStep.max_price = 0
    /\ xStep.min_price = 200
    /\ xStep.count = 2
    /\ xSnapshot = <<CardMid, CardBillion>>
    /\ Len(xOut.items) = 1

\* The rating of an item as the page script read it, at least the threshold.
RatingAtLeast(p) == p.rating # <<>> /\ JsParseFloat(p.rating) >= xStep.min_rating

IsFilterResult(e) == e.type = "action" /\ e.action = "filter_rating"

\* C14: a zomato step with min_rating set whose script ran keeps exactly the
\* valid items that have a rating of at least min_rating, sends one
\* filter_rating event carrying the number of those items (counted before the
\* cut to `count`), and returns the first `count` of them.
C14_RatingFilter ==
    (xPc = "done" /\ XEvaluated /\ xStep.site = "zomato" /\ xStep.min_rating # 0) =>
        LET kept == SelectSeq(XValid, RatingAtLeast)
        IN  /\ xOut.items = Prefix(kept, xStep.count)
            /\ SelectSeq(XEvents, IsFilterResult)
                  = <<EvCount("action", "filter_rating", <<"Filtered">>, Len(kept))>>

\* The same statement for pages on which every rating the script returns is a
\* decimal that float() accepts (what the code does keep of C14).
C14_WellFormedRatings ==
    (xPc = "done" /\ XEvaluated /\ xStep.site = "zomato" /\ xStep.min_rating # 0
       /\ ~RatingFilterRaises(XValid)) =>
        LET kept == SelectSeq(XValid, RatingAtLeast)
        IN  /\ xOut.items = Prefix(kept, xStep.count)
            /\ SelectSeq(XEvents, IsFilterResult)
                  = <<EvCount("action", "filter_rating", <<"Filtered">>, Len(kept))>>

\* A zomato step kept two of three venues and reported two before cutting.
C14_FilteredTwo ==
    /\ xPc = "done"
    /\ XEvaluated
    /\ xStep.site = "zomato"
    /\ xStep.min_rating = 400
    /\ xStep.count = 1
    /\ xSnapshot = <<CardMid, CardNoPrice, CardBillion>>
    /\ Len(xOut.items) = 1
    /\ \E i \in 1..Len(XEvents) : IsFilterResult(XEvents[i]) /\ XEvents[i].count = 2

----------------------------------------------------------------------------
(* Two websocket clients, each calling run_action_plan for every message it  *)
(* receives: the sessions of concurrent and of successive runs               *)

\* A browser, context or page the driver created: for which client's run, and
\* from which object (a context from a browser, a page from a context).
DriverObj(kind, c, parent) ==
    [kind |-> kind, client |-> c, run |-> sRun[c], parent |-> parent]

DriverCall(c, op, on) == [run |-> sRun[c], op |-> op, on |-> on]

\* The browser launched last, by any run.
LatestBrowser ==
    LET bs == {id \in 1..Len(sObjs) : sObjs[id].kind = "browser"}
    IN  IF bs = {} THEN 0 ELSE CHOOSE id \in bs : \A k \in bs : k <= id

SessionBrowserShared(c) == LatestBrowser

\* The browser a run works with: its own local variable.
SessionBrowser(c) == sBrowser[c]

\* The calls of run_action_plan made so far, by both clients.
RunsCalled == sRun[1] + sRun[2]

\* websocket_endpoint calls run_action_plan: results = [], page = None,
\* browser = None
SCall(c) ==
    /\ sPc[c] = "idle"
    /\ RunsCalled < MaxRuns
    /\ sRun' = [sRun EXCEPT ![c] = @ + 1]
    /\ sBrowser' = [sBrowser EXCEPT ![c] = 0]
    /\ sContext' = [sContext EXCEPT ![c] = 0]
    /\ sPage' = [sPage EXCEPT ![c] = 0]
    /\ sPc' = [sPc EXCEPT ![c] = "launch"]
    /\ UNCHANGED <<sObjs, sLog>>

\* browser = await p.chromium.launch(...), or its except clause and return []
SLaunch(c) ==
    /\ sPc[c] = "launch"
    /\ sLog' = [sLog EXCEPT ![c] = @ \cup {DriverCall(c, "launch", 0)}]
    /\ \/ /\ sObjs' = Append(sObjs, DriverObj("browser", c, 0))
          /\ sBrowser' = [sBrowser EXCEPT ![c] = Len(sObjs) + 1]
          /\ sPc' = [sPc EXCEPT ![c] = "context"]
       \/ /\ sPc' = [sPc EXCEPT ![c] = "finally"]
          /\ UNCHANGED <<sObjs, sBrowser>>
    /\ UNCHANGED <<sRun, sContext, sPage>>

\* context = await browser.new_context(...)
SNewContext(c) ==
    /\ sPc[c] = "context"
    /\ sLog' = [sLog EXCEPT ![c] = @ \cup {DriverCall(c, "new_context", SessionBrowser(c))}]
    /\ \/ /\ sObjs' = Append(sObjs, DriverObj("context", c, SessionBrowser(c)))
          /\ sContext' = [sContext EXCEPT ![c] = Len(sObjs) + 1]
          /\ sPc' = [sPc EXCEPT ![c] = "page"]
       \/ /\ sPc' = [sPc EXCEPT ![c] = "finally"]
          /\ UNCHANGED <<sObjs, sContext>>
    /\ UNCHANGED <<sRun, sBrowser, sPage>>

\* page = await context.new_page()
SNewPage(c) ==
    /\ sPc[c] = "page"
    /\ sLog' = [sLog EXCEPT ![c] = @ \cup {DriverCall(c, "new_page", sContext[c])}]
    /\ \/ /\ sObjs' = Append(sObjs, DriverObj("page", c, sContext[c]))
          /\ sPage' = [sPage EXCEPT ![c] = Len(sObjs) + 1]
          /\ sPc' = [sPc EXCEPT ![c] = "steps"]
       \/ /\ sPc' = [sPc EXCEPT ![c] = "finally"]
          /\ UNCHANGED <<sObjs, sPage>>
    /\ UNCHANGED <<sRun, sBrowser, sContext>>

\* A driver call of a step handler, any number of them: every handler is
\* passed the run's page.
SPageOp(c) ==
    /\ sPc[c] = "steps"
    /\ sLog' = [sLog EXCEPT ![c] = @ \cup {DriverCall(c, "page_op", sPage[c])}]
    /\ UNCHANGED <<sPc, sRun, sBrowser, sContext, sPage, sObjs>>

\* The loop ends, or an exception leaves it.
SLeaveLoop(c) ==
    /\ sPc[c] = "steps"
    /\ sPc' = [sPc EXCEPT ![c] = "finally"]
    /\ UNCHANGED <<sRun, sBrowser, sContext, sPage, sObjs, sLog>>

\* finally: if browser: await browser.close(); the call is over
SFinally(c) ==
    /\ sPc[c] = "finally"
    /\ sLog' = [sLog EXCEPT ![c] =
                   IF sBrowser[c] # 0
                   THEN @ \cup {DriverCall(c, "close", SessionBrowser(c))}
                   ELSE @]
    /\ sPc' = [sPc EXCEPT ![c] = "idle"]
    /\ UNCHANGED <<sRun, sBrowser, sContext, sPage, sObjs>>

InitSession ==
    /\ DispatcherIdle
    /\ ResolverIdle
    /\ ExtractIdle
    /\ sPc = [c \in Clients |-> "idle"]
    /\ sRun = [c \in Clients |-> 0]
    /\ sBrowser = [c \in Clients |-> 0]
    /\ sContext = [c \in Clients |-> 0]
    /\ sPage = [c \in Clients |-> 0]
    /\ sObjs = <<>>
    /\ sLog = [c \in Clients |-> {}]

NextSession ==
    /\ UNCHANGED <<dispatcherVars, resolverVars, extractVars>>
    /\ \E c \in Clients :
          \/ SCall(c)
          \/ SLaunch(c)
          \/ SNewContext(c)
          \/ SNewPage(c)
          \/ SPageOp(c)
          \/ SLeaveLoop(c)
          \/ SFinally(c)

SpecSession == InitSession /\ [][NextSession]_vars

\* The objects of a kind created for run r of client c.
ObjsOf(kind, c, r) ==
    {id \in 1..Len(sObjs) :
        sObjs[id].kind = kind /\ sObjs[id].client = c /\ sObjs[id].run = r}

\* Object id belongs to run r of client c.
OwnedBy(id, c, r) == sObjs[id].client = c /\ sObjs[id].run = r

\* C24: every run launches at most one browser, one context and one page;
\* every driver call of a run that has a target (new_context, new_page, a page
\* operation, close) is made on an object created for that same run, never on
\* one of the other client's run or of an earlier run; and the run's context
\* and page descend from its own browser.
C24_SessionOwned ==
    /\ \A c \in Clients : \A r \in 1..MaxRuns :
          \A kind \in {"browser", "context", "page"} :
              Cardinality(ObjsOf(kind, c, r)) <= 1
    /\ \A c \in Clients : \A e \in sLog[c] :
          e.op # "launch" => (e.on # 0 /\ OwnedBy(e.on, c, e.run))
    /\ \A id \in 1..Len(sObjs) :
          sObjs[id].kind # "browser" =>
              OwnedBy(sObjs[id].parent, sObjs[id].client, sObjs[id].run)

\* C24 witness: both clients are inside their step loops at the same time,
\* each having issued a page operation in its current run, the first client in
\* its second run, after closing the browser of its first.
C24_Witness ==
    /\ sPc[1] = "steps" /\ sPc[2] = "steps"
    /\ sRun[1] = 2
    /\ DriverCall(1, "page_op", sPage[1]) \in sLog[1]
    /\ DriverCall(2, "page_op", sPage[2]) \in sLog[2]
    /\ \E e \in sLog[1] : e.run = 1 /\ e.op = "close"
    /\ sPage[1] # sPage[2]

\* The step failed: it sent an error event or an exception left it.
XFailed ==
    \/ xOut.end = "raise"
    \/ LET evs == XEvents IN \E g \in 1..Len(evs) : evs[g].type = "error"

XScript == ExtractionScript(xStep.site, xSnapshot)

\* For each item of the script's list, in the script's order: <<its validated
\* form>>, or <<>> when validation drops it.
XValidated ==
    LET scr == XScript
    IN  [i \in 1..Len(scr) |-> ValidateOne(xStep.site, scr[i])]

\* The positions in the script's list of the items that pass validation and
\* the filters the step applies; v is XValidated.
Survivors(v) ==
    {i \in DOMAIN v :
        /\ v[i] # <<>>
        /\ RatingFilterOn(xStep) => KeepRating(xStep, v[i][1])
        /\ PriceFilterOn(xStep) => KeepPrice(xStep, v[i][1])}

\* C27: the list a step that did not fail returns is the first `count` of the
\* items that survived validation and filtering, in the order in which the page
\* script produced them: its k-th item is the k-th survivor, for every k up to
\* min(count, number of survivors); nothing is reordered or skipped.
C27_TruncationKeepsPrefix ==
    (xPc = "done" /\ ~XFailed) =>
        LET v == XValidated
            S == Survivors(v)
            n == Cardinality(S)
            rank == [i \in S |-> Cardinality({j \in S : j <= i})]
        IN  /\ Len(xOut.items) = (IF n < xStep.count THEN n ELSE xStep.count)
            /\ \A k \in 1..Len(xOut.items) :
                  \E i \in S : rank[i] = k /\ xOut.items[k] = v[i][1]

\* C27 witness: the script's first item is dropped by validation, the second
\* and third survive and differ, and the step asked for one: the second item
\* of the script's list is returned.
C27_Witness ==
    /\ xPc = "done" /\ ~XFailed
    /\ xStep.count = 1
    /\ Len(xSnapshot) = 3
    /\ Len(XValidated) = 3
    /\ Survivors(XValidated) = {2, 3}
    /\ XValidated[2] # XValidated[3]
    /\ xOut.items = XValidated[2]

IsWarning(e) == e.type = "warning"

IsExtracted(e) ==
    e.type = "action" /\ e.action = "extract_products" /\ e.msg = <<"Extracted">>

\* C28: a step that did not fail ends with exactly one closing event, its last
\* event: a warning when the returned list is empty, otherwise the
\* extract_products action event whose count is the length of the returned list
\* and whose preview is its first min(2, count) items.
C28_FinalEvent ==
    (xPc = "done" /\ ~XFailed) =>
        LET evs == XEvents
            n == Len(evs)
            closing == {g \in 1..n : IsWarning(evs[g]) \/ IsExtracted(evs[g])}
        IN  /\ closing = {n}
            /\ xOut.items = <<>> => IsWarning(evs[n])
            /\ xOut.items # <<>> =>
                  /\ IsExtracted(evs[n])
                  /\ evs[n].count = Len(xOut.items)
                  /\ Len(evs[n].preview)
                        = (IF Len(xOut.items) < 2 THEN Len(xOut.items) ELSE 2)
                  /\ \A k \in 1..Len(evs[n].preview) :
                        evs[n].preview[k] = xOut.items[k]

\* C28 witness: three items returned, the event counts 3 and previews 2.
C28_Witness ==
    /\ xPc = "done" /\ ~XFailed
    /\ Len(xOut.items) = 3
    /\ XEvents[Len(XEvents)].count = 3
    /\ Len(XEvents[Len(XEvents)].preview) = 2

\* A step that found nothing closed with the warning.
C28_WarningWhenEmpty ==
    /\ xPc = "done" /\ ~XFailed
    /\ Len(xSnapshot) = 3
    /\ xOut.items = <<>>
    /\ IsWarning(XEvents[Len(XEvents)])

\* Text t is whitespace-normalized: no leading or trailing whitespace and no
\* run of whitespace longer than one space.
Normalized(t) == t = CollapseSpaces(Strip(t))

\* C30: every item an extract_products step returns (and so every item of
\* results), on the product sites and on the listing site alike, has a
\* whitespace-normalized name of at least 3 and at most 150 characters.
C30_NamesNormalized ==
    xPc = "done" =>
        \A k \in 1..Len(xOut.items) :
            /\ Normalized(xOut.items[k].name)
            /\ Len(xOut.items[k].name) >= 3
            /\ Len(xOut.items[k].name) <= 150

\* The same for the product sites only, whose script collapses whitespace and
\* cuts the name; on the listing site the name is trimmed and at least 3 long.
C30_ProductNamesNormalized ==
    xPc = "done" =>
        \A k \in 1..Len(xOut.items) :
            /\ Len(xOut.items[k].name) >= 3
            /\ xOut.items[k].name = Strip(xOut.items[k].name)
            /\ xStep.site # "zomato" =>
                  /\ Normalized(xOut.items[k].name)
                  /\ Len(xOut.items[k].name) <= 150

\* A listing whose name keeps a run of two spaces inside it was returned.
C30_ListingNameNotCollapsed ==
    /\ xPc = "done"
    /\ xStep.site = "zomato"
    /\ \E k \in 1..Len(xOut.items) :
          xOut.items[k].name = <<"M", "a", " ", " ", "c">>

\* Rating text r is a decimal (a text float() accepts) of value 1 to 5.
DecimalOneToFive(r) == ~FloatRaises(r) /\ Hundredths(r) >= 100 /\ Hundredths(r) <= 500

\* C31: every item an extract_products step returns (and so every item of
\* results), on the product sites and on the listing site alike, has a rating
\* that is absent (empty, or the "N/A" sentinel) or a decimal in [1, 5].
C31_RatingInRange ==
    xPc = "done" =>
        \A k \in 1..Len(xOut.items) :
            \/ xOut.items[k].rating \in {<<>>, NA}
            \/ DecimalOneToFive(xOut.items[k].rating)

\* What holds: on the listing site a stored rating is one parseFloat reads as a
\* number in [1, 5]; on the product sites it is any run of digits and dots.
C31_ListingRatingInRange ==
    xPc = "done" =>
        \A k \in 1..Len(xOut.items) :
            LET r == xOut.items[k].rating
            IN  IF xStep.site = "zomato"
                THEN r = <<>> \/ (JsParseFloat(r) >= 100 /\ JsParseFloat(r) <= 500)
                ELSE r = NA \/ (r # <<>> /\ Only(r, Digits \cup {"."}) = r)

\* A product step returned an item rated 9.9, and a listing step on the same
\* card would have dropped that rating.
C31_ProductRatingOffScale ==
    /\ xPc = "done"
    /\ xStep.site = "flipkart"
    /\ \E k \in 1..Len(xOut.items) : xOut.items[k].rating = <<"9", ".", "9">>
    /\ ZomatoItem(CardOffScale)[1].rating = <<>>

\* What the call made would have done, the driver behaving the same, for the
\* step s in place of xStep.
XRerun(s) == ExtractProducts(s, xSnapshot, XEvaluated, xOut.end # "raise")

IsPriceFilterResult(e) == e.type = "action" /\ e.action = "filter_price"

\* C35: the two filters exclude each other by site.  A listing (zomato) step
\* returns the same list and sends the same events as it would without its
\* price bounds, and sends no filter_price event; a step on a product site
\* returns the same list and sends the same events as it would without its
\* min_rating, and sends no filter_rating event; and a step with neither
\* min_rating nor price bounds whose script ran returns the first `count` of
\* the validated items and sends no filter event.
C35_FiltersSiteExclusive ==
    xPc = "done" =>
        LET evs == XEvents
            quiet(is(_)) == \A g \in 1..Len(evs) : ~is(evs[g])
        IN  /\ xStep.site = "zomato" =>
                  /\ xOut = XRerun([xStep EXCEPT !.max_price = 0, !.min_price = 0])
                  /\ quiet(IsPriceFilterResult)
            /\ xStep.site # "zomato" =>
                  /\ xOut = XRerun([xStep EXCEPT !.min_rating = 0])
                  /\ quiet(IsFilterResult)
            /\ (XEvaluated /\ xStep.min_rating = 0 /\ xStep.max_price = 0
                   /\ xStep.min_price = 0) =>
                  /\ xOut.items = Prefix(XValid, xStep.count)
                  /\ quiet(IsPriceFilterResult) /\ quiet(IsFilterResult)

\* C35 witness: a listing step with price bounds 200 to 1000 returned an item
\* priced above 1000.
C35_Witness ==
    /\ xPc = "done"
    /\ xStep.site = "zomato"
    /\ xStep.max_price = 1000 /\ xStep.min_price = 200
    /\ xOut.items # <<>>
    /\ xOut.items[1].price # <<>>
    /\ PyInt(xOut.items[1].price) > 1000

\* A product step with min_rating 4.0 returned an item rated 3.9.
C35_ProductIgnoresRating ==
    /\ xPc = "done"
    /\ xStep.site = "flipkart"
    /\ xStep.min_rating = 400
    /\ xOut.items # <<>>
    /\ xOut.items[1].rating = <<"3", ".", "9">>

====
